---------------------------- MODULE Spec2Model ----------------------------
(***************************************************************************)
(* Frame Lab: the session guard of contexts/AuthContext.tsx, the retry     *)
(* wrapper and the Generative Client of services/geminiService.ts, the API *)
(* key provider of contexts/ApiKeyContext.tsx and the settings dialog of   *)
(* components/SettingsModal.tsx.                                           *)
(*                                                                         *)
(* Session guard.  One account, whose profile row lives in the remote     *)
(* store, and a set of client instances (browsers).  Of the row,           *)
(* active_session_id is written by the clients and is a variable;          *)
(* is_active is written by the administrator only, and each read of it     *)
(* finds it true or false.  A client runs its handlers on one event loop:  *)
(* a handler runs without interruption up to its next await, so every      *)
(* action below is one request taking effect at the store, or one          *)
(* continuation between two awaits.  A client has three strands of         *)
(* control that interleave at the awaits: "main" (the startup check, and   *)
(* the login and logout the user starts), "timer" (the verifySession of    *)
(* the 30 s interval) and "refresh" (the verifySession of a                *)
(* TOKEN_REFRESHED notification).                                          *)
(*                                                                         *)
(* What the model takes from the auth library, which is not part of the    *)
(* repository: signOut() removes the caller's auth session and runs the    *)
(* SIGNED_OUT listener before it resolves; getUser() answers with the      *)
(* user exactly when the caller holds an auth session; a request fails     *)
(* only where the code looks at the failure (the profile reads, the        *)
(* sign-in, the token write of login).                                     *)
(*                                                                         *)
(* Retry wrapper.  One call of withRetry at a time: the loop of            *)
(* geminiService.ts 14-54 with the wrapped operation as the environment,   *)
(* which at every invocation succeeds or throws some value.  A message is  *)
(* a sequence of text fragments, so that String.includes and toLowerCase   *)
(* are computed, fragment by fragment, as the code computes them.          *)
(*                                                                         *)
(* Generative Client.  One call of validateApiKey, generateVideo,          *)
(* editImage or changeImageAspectRatio at a time, the provider and the     *)
(* download as the environment.                                            *)
(*                                                                         *)
(* API key provider and settings dialog.  One page: the provider's         *)
(* initializeApiKey, and the dialog with its input, its save and test      *)
(* buttons, its effects and its validateApiKey calls in flight.            *)
(***************************************************************************)
EXTENDS Naturals, Sequences, FiniteSets, TLC

Clients == {"A", "B"}
Strands == {"main", "timer", "refresh"}

\* Bound: the number of auth sessions the auth server hands out, by accepting a
\* sign-in that then mints a token or by refreshing a session (TOKEN_REFRESHED).
MaxAuthEvents == 3

Null == <<>>
UserObj == <<"user">>
\* A faulty variant of the session object: a sign-in that hands back no session.
SessionObj_Missing == Null
SessionObj == <<"session">>
\* A faulty variant of randomUUID(): the same token every time.
Token_Repeated(n) == <<1>>

Token(n) == <<n>>

VARIABLES
    active_session_id,  \* profiles.active_session_id of the account
    authSess,           \* [client -> BOOLEAN]: the client holds an auth session
    localSessionId,     \* [client -> token | Null]: localStorage['active_session_id']
    user,               \* [client -> UserObj | Null]: useState user
    session,            \* [client -> SessionObj | Null]: useState session
    loading,            \* [client -> BOOLEAN]: useState loading
    thr,                \* [client -> [strand -> record]]: position and locals of each strand
    minted,             \* number of tokens minted so far (crypto.randomUUID never repeats)
    refreshes,          \* number of TOKEN_REFRESHED notifications delivered so far
    rt,                 \* the withRetry call in progress: its arguments, locals, log and result
    gen,                \* the call of the Generative Client in progress
    prov,               \* ApiKeyProvider: its state and the position of initializeApiKey
    dlg                 \* SettingsModal: its state, the key it saves, its tests in flight

authVars == <<active_session_id, authSess, localSessionId, user, session,
              loading, thr, minted, refreshes>>

vars == <<authVars, rt, gen, prov, dlg>>

\* A strand at rest.  op is the operation the strand runs, cu and lsid are the
\* handler's locals currentUser (as a flag) and localSessionId (or the minted sessionId),
\* reply says what the select on profiles the strand has sent will find: "lost" (an
\* error, or no row), "row" (the row, for a select of active_session_id alone),
\* "active" or "inactive" (the row, with its is_active); "none" when no select is out.
\* The activation flag is changed by the administrator only, outside the program.
Idle == [pc |-> "idle", op |-> "none", cu |-> FALSE, lsid |-> Null, reply |-> "none"]

\* What a select of active_session_id alone, and one of is_active as well, can find.
VerifyReplies == {"lost", "row"}
ProfileReplies == {"lost", "inactive", "active"}

At(c, k, p) == thr[c][k].pc = p

\* The auth sessions handed out so far: tokens minted, sign-ins accepted whose
\* login has not reached line 140 yet, and refreshes.
AuthEvents == minted + refreshes + Cardinality({d \in Clients : thr[d]["main"].pc = "li_profile"})

SetThr(c, k, r) == thr' = [thr EXCEPT ![c][k] = r]

\* A faulty variant of the call of logout(true): the call is not made.
ForcedLogout_NotCalled(op) == Idle

\* The state of a strand that has called logout(true).  With isForced the condition
\* of line 29 is false whatever getUser() and the pointer read of lines 26-27
\* answer, so the call is its one effect, the signOut() of line 37, still to come.
ForcedLogout(op) == [Idle EXCEPT !.pc = "lo_signOut", !.op = op]

----------------------------------------------------------------------------
(* The onAuthStateChange listener, AuthContext.tsx 98-116. *)

\* A faulty variant of lines 101-104: the pointer is not removed.
SignedOutHandler_KeepsPointer(c) ==
    /\ user' = [user EXCEPT ![c] = Null]
    /\ session' = [session EXCEPT ![c] = Null]
    /\ UNCHANGED localSessionId

\* lines 101-104: the SIGNED_OUT branch.
SignedOutHandler(c) ==
    /\ user' = [user EXCEPT ![c] = Null]
    /\ session' = [session EXCEPT ![c] = Null]
    /\ localSessionId' = [localSessionId EXCEPT ![c] = Null]

\* Tags the listener has no branch for (line 112).
OtherEvents == {"INITIAL_SESSION", "USER_UPDATED"}

\* A faulty variant of lines 99-112: SIGNED_IN puts the user and session in memory.
Listener_AdoptsOnSignedIn(c, event) ==
    IF event = "SIGNED_OUT"
    THEN SignedOutHandler(c)
    ELSE IF event = "SIGNED_IN"
    THEN /\ user' = [user EXCEPT ![c] = UserObj]
         /\ session' = [session EXCEPT ![c] = SessionObj]
         /\ UNCHANGED localSessionId
    ELSE UNCHANGED <<user, session, localSessionId>>

\* lines 99-112: what the listener does to user, session and the pointer on a
\* notification with tag event.  Its TOKEN_REFRESHED branch calls verifySession
\* (see TokenRefreshed) and does not touch the three itself; SIGNED_IN and every
\* other tag fall through.
Listener(c, event) ==
    IF event = "SIGNED_OUT"
    THEN SignedOutHandler(c)
    ELSE UNCHANGED <<user, session, localSessionId>>

\* A faulty variant of signOut(): the listener runs but the auth session stays.
AuthSignOut_KeepsSession(c) ==
    /\ SignedOutHandler(c)
    /\ UNCHANGED authSess

\* supabase.auth.signOut() (lines 37 and 156): the auth session goes, the listener runs.
AuthSignOut(c) ==
    /\ authSess' = [authSess EXCEPT ![c] = FALSE]
    /\ Listener(c, "SIGNED_OUT")

----------------------------------------------------------------------------
AuthInit ==
    /\ active_session_id = Null
    /\ authSess = [c \in Clients |-> FALSE]
    /\ localSessionId = [c \in Clients |-> Null]
    /\ user = [c \in Clients |-> Null]
    /\ session = [c \in Clients |-> Null]
    /\ loading = [c \in Clients |-> TRUE]
    /\ thr = [c \in Clients |-> [k \in Strands |->
                IF k = "main" THEN [Idle EXCEPT !.pc = "in_getSession", !.op = "init"] ELSE Idle]]
    /\ minted = 0
    /\ refreshes = 0

----------------------------------------------------------------------------
(* verifySession, AuthContext.tsx 41-59.  The strand k is "timer" or       *)
(* "refresh".                                                              *)

\* A faulty variant of line 53: a read without data counts as a mismatch.
VerifyMismatch_NoDataToo(data, lsid) == data = Null \/ data[1] # lsid

\* A faulty variant of line 53: a row always counts as a mismatch.
VerifyMismatch_AnyRow(data, lsid) == data # Null

\* A faulty variant of line 53: no comparison, never a mismatch.
VerifyMismatch_Never(data, lsid) == FALSE

\* line 53: data && data.active_session_id !== localSessionId.
\* data is Null when the read returned no row, otherwise <<active_session_id>>.
VerifyMismatch(data, lsid) ==
    /\ data # Null
    /\ data[1] # lsid

\* line 42: getUser() answers.  Without a user neither branch of lines 45-58 is
\* taken, and verifySession is over.
VerifyCall(c, k) ==
    /\ At(c, k, "idle")
    /\ IF authSess[c]
       THEN SetThr(c, k, [Idle EXCEPT !.pc = "v_read", !.op = "verify", !.cu = TRUE])
       ELSE UNCHANGED thr

\* App's interval (SettingsModal.tsx 389-402): set only while user is non-null.
TimerTick(c) ==
    /\ user[c] # Null
    /\ VerifyCall(c, "timer")
    /\ UNCHANGED <<rt, gen, prov, dlg, active_session_id, authSess, localSessionId, user, session,
                   loading, minted, refreshes>>

\* The listener's TOKEN_REFRESHED branch (lines 105-110): the notification
\* carries the session, so it only comes while the client holds one.
TokenRefreshed(c) ==
    /\ authSess[c]
    /\ AuthEvents < MaxAuthEvents
    /\ refreshes' = refreshes + 1
    /\ Listener(c, "TOKEN_REFRESHED")
    /\ VerifyCall(c, "refresh")
    /\ UNCHANGED <<rt, gen, prov, dlg, active_session_id, authSess, loading, minted>>

\* A notification with another tag reaches the listener (line 112).
OtherNotification(c) ==
    /\ \E event \in OtherEvents : Listener(c, event)
    /\ UNCHANGED <<rt, gen, prov, dlg, active_session_id, authSess, loading, thr, minted, refreshes>>

\* lines 43-45 and 56-58: read the pointer and branch.
VerifyRead(c, k) ==
    /\ At(c, k, "v_read")
    /\ LET lsid == localSessionId[c]
       IN  IF lsid # Null
           THEN \E r \in VerifyReplies :
                  SetThr(c, k, [thr[c][k] EXCEPT !.pc = "v_select", !.lsid = lsid, !.reply = r])
           ELSE SetThr(c, k, ForcedLogout("verify"))
    /\ UNCHANGED <<rt, gen, prov, dlg, active_session_id, authSess, localSessionId, user, session,
                   loading, minted, refreshes>>

\* lines 46-55: the profile read answers (with the row or with nothing), then the comparison.
VerifySelect(c, k) ==
    /\ At(c, k, "v_select")
    /\ LET data == IF thr[c][k].reply = "lost" THEN Null ELSE <<active_session_id>>
       IN  IF VerifyMismatch(data, thr[c][k].lsid)
           THEN SetThr(c, k, ForcedLogout("verify"))
           ELSE SetThr(c, k, Idle)
    /\ UNCHANGED <<rt, gen, prov, dlg, active_session_id, authSess, localSessionId, user, session,
                   loading, minted, refreshes>>

----------------------------------------------------------------------------
(* logout(isForced), AuthContext.tsx 25-39.                                *)

\* A faulty variant of line 29: the update is sent whether or not getUser() returned a user.
ShouldClearRemote_NoUserTest(cu, lsid, forced) == lsid # Null /\ ~forced

\* line 29: currentUser && localSessionId && !isForced.
ShouldClearRemote(cu, lsid, forced) == cu /\ lsid # Null /\ ~forced

\* A faulty variant of lines 30-34: the update without its second filter.
GuardedClear_Unguarded(asid, lsid) == Null

\* lines 30-34: update active_session_id = null where active_session_id = localSessionId.
GuardedClear(asid, lsid) == IF asid = lsid THEN Null ELSE asid

\* The logout button (SettingsModal.tsx 442): logout() with isForced defaulted to false.
\* The button is shown only when loading is false and user is non-null (lines 404-414).
LogoutClick(c) ==
    /\ At(c, "main", "idle")
    /\ ~loading[c]
    /\ user[c] # Null
    /\ SetThr(c, "main", [Idle EXCEPT !.pc = "lo_getUser", !.op = "logout"])
    /\ UNCHANGED <<rt, gen, prov, dlg, active_session_id, authSess, localSessionId, user, session,
                   loading, minted, refreshes>>

\* line 26: getUser() answers.
LogoutGetUser(c) ==
    /\ At(c, "main", "lo_getUser")
    /\ SetThr(c, "main", [thr[c]["main"] EXCEPT !.pc = "lo_read", !.cu = authSess[c]])
    /\ UNCHANGED <<rt, gen, prov, dlg, active_session_id, authSess, localSessionId, user, session,
                   loading, minted, refreshes>>

\* lines 27-29: read the pointer, decide on the remote clear.
LogoutRead(c) ==
    /\ At(c, "main", "lo_read")
    /\ LET t == thr[c]["main"]
           lsid == localSessionId[c]
       IN  IF ShouldClearRemote(t.cu, lsid, FALSE)
           THEN SetThr(c, "main", [t EXCEPT !.pc = "lo_update", !.lsid = lsid])
           ELSE SetThr(c, "main", [t EXCEPT !.pc = "lo_signOut", !.lsid = lsid])
    /\ UNCHANGED <<rt, gen, prov, dlg, active_session_id, authSess, localSessionId, user, session,
                   loading, minted, refreshes>>

\* lines 30-34: the conditional update takes effect at the store.
LogoutUpdate(c) ==
    /\ At(c, "main", "lo_update")
    /\ active_session_id' = GuardedClear(active_session_id, thr[c]["main"].lsid)
    /\ SetThr(c, "main", [thr[c]["main"] EXCEPT !.pc = "lo_signOut"])
    /\ UNCHANGED <<rt, gen, prov, dlg, authSess, localSessionId, user, session,
                   loading, minted, refreshes>>

\* line 37: signOut(); then the caller goes on: verifySession returns,
\* checkInitialSession sets loading false (lines 73 and 91), the button's logout returns.
LogoutSignOut(c, k) ==
    /\ At(c, k, "lo_signOut")
    /\ AuthSignOut(c)
    /\ loading' = IF thr[c][k].op = "init" THEN [loading EXCEPT ![c] = FALSE] ELSE loading
    /\ SetThr(c, k, Idle)
    /\ UNCHANGED <<rt, gen, prov, dlg, active_session_id, minted, refreshes>>

----------------------------------------------------------------------------
(* checkInitialSession, AuthContext.tsx 63-95, run once per page load on   *)
(* the main strand.                                                        *)

\* A faulty variant of line 84: the activation flag is not looked at.
InitialSessionBad_IgnoresActive(profile, lsid) ==
    \/ profile = Null
    \/ profile[2] # lsid

\* line 84: error || !profile?.is_active || profile.active_session_id !== localSessionId.
\* profile is Null when the read failed, otherwise <<is_active, active_session_id>>.
InitialSessionBad(profile, lsid) ==
    \/ profile = Null
    \/ ~profile[1]
    \/ profile[2] # lsid

\* line 65: getSession() answers from the client's own session store.
InitGetSession(c) ==
    /\ At(c, "main", "in_getSession")
    /\ SetThr(c, "main", [thr[c]["main"] EXCEPT !.pc = "in_read", !.cu = authSess[c]])
    /\ UNCHANGED <<rt, gen, prov, dlg, active_session_id, authSess, localSessionId, user, session,
                   loading, minted, refreshes>>

\* lines 67-75 and 91: no session, or a session without a pointer, or on to the profile read.
InitRead(c) ==
    /\ At(c, "main", "in_read")
    /\ LET t == thr[c]["main"]
           lsid == localSessionId[c]
       IN  IF ~t.cu
           THEN /\ SetThr(c, "main", Idle)
                /\ loading' = [loading EXCEPT ![c] = FALSE]
           ELSE IF lsid = Null
           THEN /\ SetThr(c, "main", ForcedLogout("init"))
                /\ UNCHANGED loading
           ELSE /\ \E r \in ProfileReplies :
                     SetThr(c, "main", [Idle EXCEPT !.pc = "in_select", !.op = "init",
                                                    !.lsid = lsid, !.reply = r])
                /\ UNCHANGED loading
    /\ UNCHANGED <<rt, gen, prov, dlg, active_session_id, authSess, localSessionId, user, session,
                   minted, refreshes>>

\* lines 77-85: the profile read answers; a bad answer starts logout(true).
InitSelect(c) ==
    /\ At(c, "main", "in_select")
    /\ LET reply == thr[c]["main"].reply
           profile == IF reply = "lost" THEN Null ELSE <<reply = "active", active_session_id>>
       IN  IF InitialSessionBad(profile, thr[c]["main"].lsid)
           THEN SetThr(c, "main", ForcedLogout("init"))
           ELSE SetThr(c, "main", [Idle EXCEPT !.pc = "in_adopt", !.op = "init"])
    /\ UNCHANGED <<rt, gen, prov, dlg, active_session_id, authSess, localSessionId, user, session,
                   loading, minted, refreshes>>

\* lines 86-91: adopt the session.
InitAdopt(c) ==
    /\ At(c, "main", "in_adopt")
    /\ session' = [session EXCEPT ![c] = SessionObj]
    /\ user' = [user EXCEPT ![c] = UserObj]
    /\ loading' = [loading EXCEPT ![c] = FALSE]
    /\ SetThr(c, "main", Idle)
    /\ UNCHANGED <<rt, gen, prov, dlg, active_session_id, authSess, localSessionId,
                   minted, refreshes>>

----------------------------------------------------------------------------
(* login, AuthContext.tsx 119-159, on the main strand.                     *)

\* A faulty variant of lines 137-138: a failed profile read is not looked at.
ProfileRefusal_IgnoresError(profile) ==
    IF profile = Null THEN "none"
    ELSE IF ~profile[1] THEN "inactive"
    ELSE "none"

\* A faulty variant of lines 137-138: the activation flag is not looked at.
ProfileRefusal_IgnoresInactive(profile) ==
    IF profile = Null THEN "profile_error" ELSE "none"

\* lines 137-138: the reason login gives up after the profile read, or "none".
\* profile is Null when the read failed, otherwise <<is_active>>.
ProfileRefusal(profile) ==
    IF profile = Null THEN "profile_error"
    ELSE IF ~profile[1] THEN "inactive"
    ELSE "none"

\* The form's submit (SettingsModal.tsx 195-231; the form is shown only when
\* loading is false and user is null, lines 404-414), and lines 120-125:
\* signInWithPassword answers; bad credentials throw before the try block.
LoginSignIn(c) ==
    /\ At(c, "main", "idle")
    /\ ~loading[c]
    /\ user[c] = Null
    /\ AuthEvents < MaxAuthEvents
    /\ \E valid \in BOOLEAN :
         IF valid
         THEN /\ authSess' = [authSess EXCEPT ![c] = TRUE]
              /\ Listener(c, "SIGNED_IN")
              /\ \E r \in ProfileReplies :
                   SetThr(c, "main", [Idle EXCEPT !.pc = "li_profile", !.op = "login", !.reply = r])
         ELSE UNCHANGED <<authSess, thr, user, session, localSessionId>>
    /\ UNCHANGED <<rt, gen, prov, dlg, active_session_id, loading, minted, refreshes>>

\* lines 130-140: the is_active read answers; then the token is minted.
LoginProfile(c) ==
    /\ At(c, "main", "li_profile")
    /\ LET reply == thr[c]["main"].reply
           why == ProfileRefusal(IF reply = "lost" THEN Null ELSE <<reply = "active">>)
       IN  IF why = "none"
           THEN /\ minted' = minted + 1
                /\ SetThr(c, "main", [thr[c]["main"] EXCEPT !.pc = "li_update", !.lsid = Token(minted + 1),
                                                            !.reply = "none"])
           ELSE /\ SetThr(c, "main", [thr[c]["main"] EXCEPT !.pc = "li_signOut", !.reply = "none"])
                /\ UNCHANGED minted
    /\ UNCHANGED <<rt, gen, prov, dlg, active_session_id, authSess, localSessionId, user, session,
                   loading, refreshes>>

\* lines 142-147: the token write takes effect, or is refused.
LoginUpdate(c) ==
    /\ At(c, "main", "li_update")
    /\ \E ok \in BOOLEAN :
         IF ok
         THEN /\ active_session_id' = thr[c]["main"].lsid
              /\ SetThr(c, "main", [thr[c]["main"] EXCEPT !.pc = "li_commit"])
         ELSE /\ SetThr(c, "main", [thr[c]["main"] EXCEPT !.pc = "li_signOut", !.lsid = Null])
              /\ UNCHANGED active_session_id
    /\ UNCHANGED <<rt, gen, prov, dlg, authSess, localSessionId, user, session,
                   loading, minted, refreshes>>

\* lines 149-153: the pointer, then the in-memory state.
LoginCommit(c) ==
    /\ At(c, "main", "li_commit")
    /\ localSessionId' = [localSessionId EXCEPT ![c] = thr[c]["main"].lsid]
    /\ session' = [session EXCEPT ![c] = SessionObj]
    /\ user' = [user EXCEPT ![c] = UserObj]
    /\ SetThr(c, "main", Idle)
    /\ UNCHANGED <<rt, gen, prov, dlg, active_session_id, authSess, loading, minted, refreshes>>

\* lines 155-158: the catch block signs out, then rethrows.
LoginSignOut(c) ==
    /\ At(c, "main", "li_signOut")
    /\ AuthSignOut(c)
    /\ SetThr(c, "main", Idle)
    /\ UNCHANGED <<rt, gen, prov, dlg, active_session_id, loading, minted, refreshes>>

----------------------------------------------------------------------------
(* The environment.                                                        *)

\* The page is loaded again: the component state starts over (lines 21-23), what the
\* main strand was doing is dropped, the browser's storage and the auth session stay.
\* (A verifySession in flight has changed nothing yet, so a reload that drops it
\* is a reload before it was called: only those are taken.)
Reload(c) ==
    /\ At(c, "timer", "idle")
    /\ At(c, "refresh", "idle")
    /\ user' = [user EXCEPT ![c] = Null]
    /\ session' = [session EXCEPT ![c] = Null]
    /\ loading' = [loading EXCEPT ![c] = TRUE]
    /\ thr' = [thr EXCEPT ![c] = [k \in Strands |->
                IF k = "main" THEN [Idle EXCEPT !.pc = "in_getSession", !.op = "init"] ELSE Idle]]
    /\ UNCHANGED <<rt, gen, prov, dlg, active_session_id, authSess, localSessionId, minted, refreshes>>

----------------------------------------------------------------------------
Next ==
    \/ \E c \in Clients : TimerTick(c)
    \/ \E c \in Clients : TokenRefreshed(c)
    \/ \E c \in Clients : OtherNotification(c)
    \/ \E c \in Clients, k \in {"timer", "refresh"} : VerifyRead(c, k)
    \/ \E c \in Clients, k \in {"timer", "refresh"} : VerifySelect(c, k)
    \/ \E c \in Clients : LogoutClick(c)
    \/ \E c \in Clients : LogoutGetUser(c)
    \/ \E c \in Clients : LogoutRead(c)
    \/ \E c \in Clients : LogoutUpdate(c)
    \/ \E c \in Clients, k \in Strands : LogoutSignOut(c, k)
    \/ \E c \in Clients : InitGetSession(c)
    \/ \E c \in Clients : InitRead(c)
    \/ \E c \in Clients : InitSelect(c)
    \/ \E c \in Clients : InitAdopt(c)
    \/ \E c \in Clients : LoginSignIn(c)
    \/ \E c \in Clients : LoginProfile(c)
    \/ \E c \in Clients : LoginUpdate(c)
    \/ \E c \in Clients : LoginCommit(c)
    \/ \E c \in Clients : LoginSignOut(c)
    \/ \E c \in Clients : Reload(c)

----------------------------------------------------------------------------
(* withRetry, geminiService.ts 14-54.                                      *)

\* lines 16-17: the defaults of maxRetries and initialDelay.
DefaultMaxRetries == 5
DefaultInitialDelay == 1000
\* line 33: the jitter is Math.random() * 500.
JitterBound == 500
PollInterval == 10000
\* Bound: the largest maxRetries tried besides the default.
MaxRetriesArg == 3

MaxRetriesArgs == (0 .. MaxRetriesArg) \cup {DefaultMaxRetries}
InitialDelays == {0, 1, DefaultInitialDelay}
JitterSamples == {0, JitterBound - 1}

\* String.prototype.toLowerCase, on one fragment and on a message.
LowerFragment(f) ==
    CASE f = "Got " -> "got "
      [] f = "STATUS: 429" -> "status: 429"
      [] f = "Quota Exceeded" -> "quota exceeded"
      [] f = "QUOTA EXCEEDED" -> "quota exceeded"
      [] OTHER -> f

ToLowerCase(msg) == [i \in 1 .. Len(msg) |-> LowerFragment(msg[i])]

\* String.prototype.includes: sub occurs in msg as a run of consecutive fragments.
Includes(msg, sub) ==
    \E i \in 0 .. (Len(msg) - Len(sub)) :
        \A j \in 1 .. Len(sub) : msg[i + j] = sub[j]

\* What the wrapped operation throws: an Error or some other value (isError), with its message.
Thrown(isError, msg) == [isError |-> isError, msg |-> msg]

ThrownSamples ==
    { Thrown(TRUE, <<"got ", "status: 429", " Too Many Requests">>),
      Thrown(TRUE, <<"HTTP ", "status: 429">>),
      Thrown(TRUE, <<"Got ", "STATUS: 429">>),
      Thrown(TRUE, <<"quota exceeded">>),
      Thrown(TRUE, <<"Resource: ", "Quota Exceeded", " for model">>),
      Thrown(TRUE, <<"QUOTA EXCEEDED">>),
      Thrown(TRUE, <<"got status: 500">>),
      Thrown(TRUE, <<>>),
      Thrown(FALSE, <<"got ", "status: 429">>),
      Thrown(FALSE, <<"quota exceeded">>) }

\* A faulty variant of line 53: the fallback throws the quota message.
ExhaustedError_Quota == Thrown(TRUE, <<"API ", "quota exceeded", ". Please check your billing plan">>)

\* line 46 and line 53: the two errors withRetry makes itself.
QuotaError == Thrown(TRUE, <<"API ", "quota exceeded", ". Please check your billing plan">>)
ExhaustedError == Thrown(TRUE, <<"Exhausted all retries for API call.">>)

\* A faulty variant of lines 26-27: every Error counts as a rate-limit error.
IsRateLimitError_AnyError(e) == e.isError

\* lines 26-27.
IsRateLimitError(e) ==
    /\ e.isError
    /\ \/ Includes(e.msg, <<"got ", "status: 429">>)
       \/ Includes(ToLowerCase(e.msg), <<"quota exceeded">>)

\* A faulty variant of line 29: one retry too many.
AttemptsRemain_OneMore(attempt, maxRetries) == attempt < maxRetries

\* line 29: attempts remain.
AttemptsRemain(attempt, maxRetries) == attempt < maxRetries - 1

\* line 32: initialDelay * (2 ** (attempt - 1)).
\* A faulty variant of line 32: the same delay before every retry.
BackoffDelay_Constant(initialDelay, attempt) == initialDelay
BackoffDelay(initialDelay, attempt) == initialDelay * (2 ^ (attempt - 1))

\* No call in progress.
RtIdle == [pc |-> "idle", maxRetries |-> 0, initialDelay |-> 0, attempt |-> 0,
           calls |-> 0, errs |-> <<>>, waits |-> <<>>, result |-> Null]

\* A caller calls withRetry(apiCall, maxRetries, initialDelay); line 19.
RetryCall ==
    /\ rt.pc \in {"idle", "returned", "thrown"}
    /\ \E m \in MaxRetriesArgs, d \in InitialDelays :
         rt' = [RtIdle EXCEPT !.pc = "loop", !.maxRetries = m, !.initialDelay = d]
    /\ UNCHANGED <<authVars, gen, prov, dlg>>

\* lines 20-53: one turn of the loop, from the test of the while to the next await,
\* return or throw.  errs is the log of what was caught (lines 36 and 42), waits the
\* delays handed to setTimeout, each as <<delay, jitter>>.
RetryAttempt ==
    /\ rt.pc = "loop"
    /\ IF rt.attempt < rt.maxRetries
       THEN \/ rt' = [rt EXCEPT !.pc = "returned", !.calls = @ + 1, !.result = <<"value", rt.calls + 1>>]
            \/ \E e \in ThrownSamples :
                 IF IsRateLimitError(e) /\ AttemptsRemain(rt.attempt, rt.maxRetries)
                 THEN \E jitter \in JitterSamples :
                        rt' = [rt EXCEPT !.pc = "waiting", !.calls = @ + 1,
                                         !.attempt = @ + 1,
                                         !.errs = Append(@, e),
                                         !.waits = Append(@, <<BackoffDelay(rt.initialDelay, rt.attempt + 1), jitter>>)]
                 ELSE rt' = [rt EXCEPT !.pc = "thrown", !.calls = @ + 1,
                                       !.errs = Append(@, e),
                                       !.result = IF IsRateLimitError(e) THEN QuotaError ELSE e]
       ELSE rt' = [rt EXCEPT !.pc = "thrown", !.result = ExhaustedError]
    /\ UNCHANGED <<authVars, gen, prov, dlg>>

\* line 39: the timer of the wait fires.
RetryWake ==
    /\ rt.pc = "waiting"
    /\ rt' = [rt EXCEPT !.pc = "loop"]
    /\ UNCHANGED <<authVars, gen, prov, dlg>>

RetryNext ==
    \/ RetryCall
    \/ RetryAttempt
    \/ RetryWake

----------------------------------------------------------------------------
(***************************************************************************)
(* The Generative Client: getGenAIClient, validateApiKey and generateVideo *)
(* (geminiService.ts 56-190).  A string is a non-empty sequence of         *)
(* fragments, <<"">> being the empty string; Null is null or undefined.    *)
(* The API key, a model name and the like, which are only passed on, are   *)
(* plain strings.                                                          *)
(***************************************************************************)

MaxPolls == 2

\* JavaScript truthiness of a string-or-null value.
Truthy(v) == v # Null /\ v # <<"">>

\* What one call of the provider can end in: a value, or one of these errors.
ProviderErrors ==
    { Thrown(TRUE, <<"got ", "status: 429", " Too Many Requests">>),
      Thrown(TRUE, <<"got status: 500">>) }

ProviderReplies ==
    {[ok |-> TRUE, err |-> Thrown(FALSE, Null)]} \cup {[ok |-> FALSE, err |-> e] : e \in ProviderErrors}

\* The loop of withRetry (lines 19-53) as a function of what the successive calls
\* of apiCall end in: replies[n] is the end of the n-th call.  The result says
\* whether withRetry returned or threw, what it threw, and how many calls it made.
RECURSIVE RetryLoop(_, _, _)
RetryLoop(replies, maxRetries, attempt) ==
    IF attempt < maxRetries
    THEN LET r == replies[attempt + 1] IN
         IF r.ok
         THEN [kind |-> "returned", err |-> r.err, calls |-> attempt + 1]
         ELSE IF IsRateLimitError(r.err) /\ AttemptsRemain(attempt, maxRetries)
              THEN RetryLoop(replies, maxRetries, attempt + 1)
              ELSE [kind |-> "thrown",
                    err |-> IF IsRateLimitError(r.err) THEN QuotaError ELSE r.err,
                    calls |-> attempt + 1]
    ELSE [kind |-> "thrown", err |-> ExhaustedError, calls |-> attempt]

\* What withRetry(apiCall, maxRetries) can end in.
WithRetry(maxRetries) ==
    { RetryLoop(replies, maxRetries, 0) : replies \in [1 .. maxRetries -> ProviderReplies] }

\* withRetry(apiCall) with the default arguments, as every call in this file has it.
WithRetryOutcomes == WithRetry(DefaultMaxRetries)

\* A faulty variant of the calls of lines 150 and 156: the polls share one budget
\* of attempts with the submission.
RetryBudget_Shared(spent) == IF spent < DefaultMaxRetries THEN DefaultMaxRetries - spent ELSE 0

\* lines 150 and 156: each withRetry of generateVideo is called without maxRetries,
\* whatever the number of provider calls the earlier ones made.
RetryBudget(spent) == DefaultMaxRetries

NoOutcome == [kind |-> "none", err |-> Thrown(FALSE, Null), calls |-> 0]

\* line 57-59.
MissingKeyError == Thrown(TRUE, <<"API Key is missing.">>)

\* Array.prototype.join.
RECURSIVE Join(_, _)
Join(parts, sep) ==
    IF Len(parts) = 0 THEN <<"">>
    ELSE IF Len(parts) = 1 THEN parts[1]
    ELSE parts[1] \o <<sep>> \o Join(Tail(parts), sep)

\* JSON.stringify of a prompt object of one string property.
Stringify(prompt) == <<"{\"", prompt.body[1], "\":\"", prompt.body[2], "\"}">>

AnimatePrefix == "Animate this image. "
VerticalClause == " The video must be a full-screen vertical video with a 9:16 aspect ratio."
WidescreenClause == " The video must be a widescreen video with a 16:9 aspect ratio."
StyleClause(visualStyle) == <<"The visual style should be ", visualStyle, ".">>
ResolutionClause(resolution) == <<"The video resolution should be ", resolution, ".">>
VoiceClause(characterVoice) ==
    <<"The video should include audio with a character voice in ", characterVoice, ".">>
AmbientClause == <<"The video should include ambient sound.">>
SilentClause == <<"The video should be silent.">>

\* A faulty variant of lines 120-126: the voice is not looked at.
SoundClause_IgnoresVoice(enableSound, characterVoice) ==
    IF enableSound THEN AmbientClause ELSE SilentClause

\* lines 120-126.
SoundClause(enableSound, characterVoice) ==
    IF enableSound /\ characterVoice # "none" THEN VoiceClause(characterVoice)
    ELSE IF enableSound THEN AmbientClause
    ELSE SilentClause

\* lines 96-128: a is the record of generateVideo's arguments.
FinalPrompt(a) ==
    IF a.prompt.isString
    THEN LET withImage == IF Truthy(a.imageBase64)
                          THEN <<AnimatePrefix>> \o a.prompt.body
                          ELSE a.prompt.body
             modifiedPrompt == withImage \o << IF a.aspectRatio = "9:16"
                                               THEN VerticalClause
                                               ELSE WidescreenClause >>
             promptParts == << modifiedPrompt,
                               StyleClause(a.visualStyle),
                               ResolutionClause(a.resolution),
                               SoundClause(a.enableSound, a.characterVoice) >>
         IN  Join(promptParts, " ")
    ELSE Stringify(a.prompt)

\* lines 131-144.
RequestPayload(a) ==
    [ model |-> a.model,
      prompt |-> FinalPrompt(a),
      config |-> [numberOfVideos |-> 1],
      image |-> IF Truthy(a.imageBase64) /\ Truthy(a.imageMimeType)
                THEN <<a.imageBase64, a.imageMimeType>>
                ELSE Null ]

ApiKeys == {"", "KEY"}
Prompts ==
    { [isString |-> TRUE, body |-> <<"a cat">>],
      [isString |-> TRUE, body |-> <<"">>],
      [isString |-> FALSE, body |-> <<"scene", "a cat">>] }
Images == {Null, <<"">>, <<"AAAA">>}
MimeTypes == {Null, <<"image/png">>}
AspectRatios == {"9:16", "16:9", "1:1"}
CharacterVoices == {"none", "english"}

VideoArgs ==
    [ apiKey : ApiKeys, prompt : Prompts, imageBase64 : Images, imageMimeType : MimeTypes,
      model : {"veo"}, aspectRatio : AspectRatios, enableSound : BOOLEAN,
      resolution : {"720p"}, characterVoice : CharacterVoices, visualStyle : {"cinematic"} ]

\* The Operation the provider answers with: done, error (Null, or <<message>> with
\* the message a string or Null) and response.generatedVideos[0].video.uri.
Operations ==
    [ done : BOOLEAN,
      error : {Null, <<Null>>, << <<"">> >>, << <<"boom">> >>},
      link : {Null, <<"">>, <<"https://v/1">>, <<"https://v/2", "?", "alt=media">>} ]

NoOperation == [done |-> FALSE, error |-> Null, link |-> Null]
NoArgs == CHOOSE a \in VideoArgs : a.apiKey = "" /\ a.prompt.body = <<"">> /\ a.prompt.isString
                                   /\ a.imageBase64 = Null /\ a.imageMimeType = Null
                                   /\ a.aspectRatio = "16:9" /\ ~a.enableSound
                                   /\ a.characterVoice = "none"
NoPayload == [model |-> "", prompt |-> Null, config |-> [numberOfVideos |-> 1], image |-> Null]

UnknownError == <<"Video generation failed due to an unknown error.">>
EmptyResultError == <<"Video generation failed or returned an empty result.">>
DownloadError(errorBody) ==
    <<"Failed to download the generated video file. Server response: ">> \o errorBody

\* line 164: operation.error.message || "...unknown error."
ErrorMessage(error) == IF Truthy(error[1]) THEN error[1] ELSE UnknownError

\* lines 176-177.
FinalUrlWithKey(downloadLink, apiKey) ==
    downloadLink \o << IF Includes(downloadLink, <<"?">>) THEN "&" ELSE "?", "key=", apiKey >>

\* What the fetch of line 180 ends in: a response that is ok, one that is not (with
\* its body), or a rejection.
FetchReplies == {"ok", "notOk", "rejected"}

\* The parts of a GenerateContentResponse's first candidate: a part is a text part
\* (inlineData Null) or carries inlineData <<data, mimeType>>.
MaxParts == 3
Parts ==
    { [inlineData |-> Null],
      [inlineData |-> <<"IMG1", "image/png">>],
      [inlineData |-> <<"IMG2", "image/jpeg">>] }

RECURSIVE SeqsUpTo(_, _)
SeqsUpTo(S, n) ==
    IF n = 0 THEN {<<>>}
    ELSE LET shorter == SeqsUpTo(S, n - 1)
         IN  shorter \cup {Append(q, x) : q \in shorter, x \in S}

\* The answers to generateContent: no candidate at all, or one candidate (the
\* request sets no candidateCount) with its parts; parts <<>> also stands for a
\* candidate without content or without parts.
ContentResponses ==
    {[candidates |-> <<>>]} \cup {[candidates |-> <<[parts |-> ps]>>] : ps \in SeqsUpTo(Parts, MaxParts)}

NoResponse == [candidates |-> <<>>]

\* response.candidates?.[0]?.content?.parts ?? []  (lines 223 and 312).
PartsOf(response) ==
    IF Len(response.candidates) = 0 THEN <<>> ELSE response.candidates[1].parts

\* A faulty variant of the loop of lines 223-230: the last part with inline data wins.
RECURSIVE FirstInline_Last(_)
FirstInline_Last(parts) ==
    IF parts = <<>> THEN Null
    ELSE IF FirstInline_Last(Tail(parts)) # Null THEN FirstInline_Last(Tail(parts))
    ELSE Head(parts).inlineData

\* The loop of lines 223-230 and 312-319: the inlineData of the first part that
\* has one, Null if the loop ends without a return.
RECURSIVE FirstInline(_)
FirstInline(parts) ==
    IF parts = <<>> THEN Null
    ELSE IF Head(parts).inlineData # Null THEN Head(parts).inlineData
    ELSE FirstInline(Tail(parts))

NoImageError == Thrown(TRUE, <<"No image was generated by the model.">>)

ImageOps == {"editImage", "changeImageAspectRatio"}

\* No call of the Generative Client in progress.  log is what generateVideo has
\* done at the provider, in order: "submit", "wait" (with its milliseconds) and
\* "poll"; last is how the latest withRetry ended, spent the number of provider
\* calls the withRetry calls before it made.
GenIdle ==
    [ op |-> "none", pc |-> "idle", args |-> NoArgs, payload |-> NoPayload,
      operation |-> NoOperation, log |-> <<>>, last |-> NoOutcome,
      spent |-> 0, fetched |-> Null, response |-> NoResponse,
      result |-> [kind |-> "none", val |-> Null] ]

Returned(val) == [kind |-> "returned", val |-> val]
Threw(e) == [kind |-> "thrown", val |-> <<e>>]

LogEntry(ev, ms) == [ev |-> ev, ms |-> ms]
PollsIn(log) == Cardinality({i \in 1 .. Len(log) : log[i].ev = "poll"})

\* A faulty variant of validateApiKey's result: true whatever the call ended in.
ValidateResult_AlwaysTrue(outcome) == TRUE

\* lines 73-78: true after withRetry returned, false in the catch.
ValidateResult(outcome) == outcome.kind = "returned"

\* validateApiKey, lines 68-73: up to the await of withRetry.
ValidateCall ==
    /\ gen.pc \in {"idle", "returned", "thrown"}
    /\ \E apiKey \in ApiKeys :
         IF apiKey = ""
         THEN gen' = [GenIdle EXCEPT !.op = "validateApiKey", !.pc = "returned",
                                     !.args.apiKey = apiKey, !.result = Returned(<<FALSE>>)]
         ELSE gen' = [GenIdle EXCEPT !.op = "validateApiKey", !.pc = "listing",
                                     !.args.apiKey = apiKey]
    /\ UNCHANGED <<authVars, rt, prov, dlg>>

\* validateApiKey, lines 73-78: withRetry(() => ai.models.list()) has ended.
ValidateListed ==
    /\ gen.op = "validateApiKey"
    /\ gen.pc = "listing"
    /\ \E outcome \in WithRetryOutcomes :
         gen' = [gen EXCEPT !.pc = "returned", !.last = outcome,
                            !.result = Returned(<<ValidateResult(outcome)>>)]
    /\ UNCHANGED <<authVars, rt, prov, dlg>>

\* generateVideo, lines 94-150: up to the await of the submission.
VideoCall ==
    /\ gen.pc \in {"idle", "returned", "thrown"}
    /\ \E a \in VideoArgs :
         IF a.apiKey = ""
         THEN gen' = [GenIdle EXCEPT !.op = "generateVideo", !.pc = "thrown", !.args = a,
                                     !.result = Threw(MissingKeyError)]
         ELSE gen' = [GenIdle EXCEPT !.op = "generateVideo", !.pc = "submitting", !.args = a,
                                     !.payload = RequestPayload(a),
                                     !.log = <<LogEntry("submit", 0)>>]
    /\ UNCHANGED <<authVars, rt, prov, dlg>>

\* A faulty variant of the test of line 153: a job that reports an error is not
\* polled again, done or not.
JobPending_UnlessError(operation) == ~operation.done /\ operation.error = Null

\* line 153: while (!operation.done).
JobPending(operation) == ~operation.done

\* A faulty variant of lines 160-172: the link is looked at before the error.
Classify_LinkFirst(operation) ==
    IF ~Truthy(operation.link) THEN Threw(Thrown(TRUE, EmptyResultError))
    ELSE IF operation.error # Null THEN Threw(Thrown(TRUE, ErrorMessage(operation.error)))
    ELSE [kind |-> "none", val |-> Null]

\* lines 160-172: what generateVideo throws on a job that is done, if anything.
Classify(operation) ==
    IF operation.error # Null THEN Threw(Thrown(TRUE, ErrorMessage(operation.error)))
    ELSE IF ~Truthy(operation.link) THEN Threw(Thrown(TRUE, EmptyResultError))
    ELSE [kind |-> "none", val |-> Null]

\* lines 153-180, from an answer of the provider to the next await or throw: while
\* the job is pending the 10-second wait is started; a done job is classified, and
\* the download of its video is started.  The arguments other than apiKey are not
\* read after line 150.
AfterAnswer(outcome, operation) ==
    LET answered == [gen EXCEPT !.last = outcome, !.operation = operation,
                                !.args = [NoArgs EXCEPT !.apiKey = gen.args.apiKey],
                                !.payload = NoPayload]
    IN  IF JobPending(operation)
        THEN gen' = [answered EXCEPT !.pc = "waiting",
                                     !.log = Append(@, LogEntry("wait", PollInterval))]
        ELSE IF Classify(operation).kind = "thrown"
             THEN gen' = [answered EXCEPT !.pc = "thrown", !.result = Classify(operation)]
             ELSE gen' = [answered EXCEPT !.pc = "fetching",
                                          !.fetched = FinalUrlWithKey(operation.link, gen.args.apiKey)]

\* A withRetry of generateVideo has ended: by a throw, which generateVideo passes
\* on, or with the provider's answer.
VideoAnswer ==
    \E outcome \in WithRetry(RetryBudget(gen.spent)) :
        IF outcome.kind = "thrown"
        THEN gen' = [gen EXCEPT !.pc = "thrown", !.last = outcome, !.result = Threw(outcome.err)]
        ELSE \E operation \in Operations : AfterAnswer(outcome, operation)

\* line 150: withRetry(() => ai.models.generateVideos(requestPayload)) has ended.
VideoSubmitted ==
    /\ gen.op = "generateVideo"
    /\ gen.pc = "submitting"
    /\ VideoAnswer
    /\ UNCHANGED <<authVars, rt, prov, dlg>>

\* lines 154-156: the 10 seconds are over and the poll is sent.
VideoWake ==
    /\ gen.op = "generateVideo"
    /\ gen.pc = "waiting"
    /\ PollsIn(gen.log) < MaxPolls
    /\ gen' = [gen EXCEPT !.pc = "polling", !.log = Append(@, LogEntry("poll", 0)),
                          !.spent = @ + gen.last.calls]
    /\ UNCHANGED <<authVars, rt, prov, dlg>>

\* line 156: withRetry(() => ai.operations.getVideosOperation(...)) has ended.
VideoPolled ==
    /\ gen.op = "generateVideo"
    /\ gen.pc = "polling"
    /\ VideoAnswer
    /\ UNCHANGED <<authVars, rt, prov, dlg>>

\* lines 180-189: the fetch of the video has ended.
VideoFetched ==
    /\ gen.op = "generateVideo"
    /\ gen.pc = "fetching"
    /\ \E r \in FetchReplies :
         gen' = [gen EXCEPT !.pc = IF r = "ok" THEN "returned" ELSE "thrown",
                            !.result =
                               CASE r = "ok" -> Returned(<<"blob:", "1">>)
                                 [] r = "notOk" -> Threw(Thrown(TRUE, DownloadError(<<"Forbidden">>)))
                                 [] OTHER -> Threw(Thrown(TRUE, <<"Failed to fetch">>))]
    /\ UNCHANGED <<authVars, rt, prov, dlg>>

\* editImage, lines 195-221, and changeImageAspectRatio, lines 272-310: up to the
\* await of withRetry(() => ai.models.generateContent(...)).
ImageCall ==
    /\ gen.pc \in {"idle", "returned", "thrown"}
    /\ \E op \in ImageOps, apiKey \in ApiKeys :
         IF apiKey = ""
         THEN gen' = [GenIdle EXCEPT !.op = op, !.pc = "thrown", !.args.apiKey = apiKey,
                                     !.result = Threw(MissingKeyError)]
         ELSE gen' = [GenIdle EXCEPT !.op = op, !.pc = "generating", !.args.apiKey = apiKey,
                                     !.log = <<LogEntry("generateContent", 0)>>]
    /\ UNCHANGED <<authVars, rt, prov, dlg>>

\* lines 222-232 and 311-321: withRetry has ended; its throw is passed on, the
\* parts of its answer are scanned.
ImageAnswered ==
    /\ gen.op \in ImageOps
    /\ gen.pc = "generating"
    /\ \E outcome \in WithRetryOutcomes :
         IF outcome.kind = "thrown"
         THEN gen' = [gen EXCEPT !.pc = "thrown", !.last = outcome, !.result = Threw(outcome.err)]
         ELSE \E response \in ContentResponses :
                LET inline == FirstInline(PartsOf(response))
                IN  gen' = [gen EXCEPT !.last = outcome, !.response = response,
                                       !.pc = IF inline # Null THEN "returned" ELSE "thrown",
                                       !.result = IF inline # Null
                                                  THEN Returned(<<[data |-> inline[1], mimeType |-> inline[2]]>>)
                                                  ELSE Threw(NoImageError)]
    /\ UNCHANGED <<authVars, rt, prov, dlg>>

ClientNext ==
    \/ ValidateCall
    \/ ValidateListed
    \/ VideoCall
    \/ VideoSubmitted
    \/ VideoWake
    \/ VideoPolled
    \/ VideoFetched
    \/ ImageCall
    \/ ImageAnswered

----------------------------------------------------------------------------
(***************************************************************************)
(* ApiKeyProvider (contexts/ApiKeyContext.tsx 12-66): the key is taken     *)
(* from the environment or fetched from the backend when the provider is   *)
(* mounted.                                                                *)
(***************************************************************************)

\* String.prototype.toUpperCase, on one fragment and on a string.
UpperFragment(f) ==
    CASE f = "placeholder" -> "PLACEHOLDER"
      [] f = "Placeholder" -> "PLACEHOLDER"
      [] f = "your-" -> "YOUR-"
      [] f = "-key" -> "-KEY"
      [] OTHER -> f

ToUpperCase(str) == [i \in 1 .. Len(str) |-> UpperFragment(str[i])]

\* A faulty variant of isPlaceholderKey: the marker is looked for as it is written.
IsPlaceholderKey_CaseSensitive(key) ==
    IF ~Truthy(key) THEN TRUE ELSE Includes(key, <<"PLACEHOLDER">>)

\* isPlaceholderKey, lines 17-20.
IsPlaceholderKey(key) ==
    IF ~Truthy(key) THEN TRUE ELSE Includes(ToUpperCase(key), <<"PLACEHOLDER">>)

\* What process.env.API_KEY and data.apiKey can hold.
KeyValues ==
    { Null, <<"">>, <<"AIza", "123">>, <<"PLACEHOLDER">>, <<"PLACEHOLDER", "_API_KEY">>,
      <<"your-", "placeholder", "-key">>, <<"Placeholder">> }

\* What the fetch of line 36 ends in: a rejection, a response that is not ok, an
\* ok response whose json() throws, or an ok response with its data.
BackendReplies ==
    {[kind |-> k, apiKey |-> Null] : k \in {"rejected", "notOk", "badJson"}}
        \cup {[kind |-> "ok", apiKey |-> v] : v \in KeyValues}

\* useState('') and useState(true), lines 13-14; the effect of lines 57-59 has not
\* run yet.
ProvInit ==
    [ pc |-> "mount", apiKey |-> <<"">>, isInitializing |-> TRUE, env |-> Null,
      reply |-> [kind |-> "none", apiKey |-> Null] ]

\* isApiKeySet, line 61.
IsApiKeySet == Truthy(prov.apiKey) /\ ~IsPlaceholderKey(prov.apiKey)

\* initializeApiKey, lines 24-36: up to the return of line 33 or the await of the fetch.
ProvInitialize ==
    /\ prov.pc = "mount"
    /\ \E envApiKey \in KeyValues :
         IF Truthy(envApiKey) /\ ~IsPlaceholderKey(envApiKey)
         THEN prov' = [prov EXCEPT !.pc = "done", !.env = envApiKey, !.apiKey = envApiKey,
                                   !.isInitializing = FALSE]
         ELSE prov' = [prov EXCEPT !.pc = "fetching", !.env = envApiKey, !.isInitializing = TRUE]
    /\ UNCHANGED <<authVars, rt, gen, dlg>>

\* initializeApiKey, lines 36-52: the fetch has ended; try, catch and finally.
ProvFetched ==
    /\ prov.pc = "fetching"
    /\ \E r \in BackendReplies :
         prov' = [prov EXCEPT !.pc = "done", !.reply = r,
                              !.apiKey = IF r.kind = "ok" /\ Truthy(r.apiKey) /\ ~IsPlaceholderKey(r.apiKey)
                                         THEN r.apiKey ELSE @,
                              !.isInitializing = FALSE]
    /\ UNCHANGED <<authVars, rt, gen, dlg>>


----------------------------------------------------------------------------
(***************************************************************************)
(* SettingsModal (components/SettingsModal.tsx 16-141) with the provider   *)
(* it saves to (contexts/ApiKeyContext.tsx 87-114, the one with setApiKey  *)
(* and the stored key).                                                    *)
(***************************************************************************)

\* String.prototype.trim: the blanks at both ends go.
RECURSIVE TrimStart(_)
TrimStart(str) == IF str # <<>> /\ str[1] = " " THEN TrimStart(Tail(str)) ELSE str

RECURSIVE TrimEnd(_)
TrimEnd(str) ==
    IF str # <<>> /\ str[Len(str)] = " " THEN TrimEnd(SubSeq(str, 1, Len(str) - 1)) ELSE str

Trim(str) == LET t == TrimEnd(TrimStart(str)) IN IF t = <<>> THEN <<"">> ELSE t

\* The validateApiKey calls of the dialog in flight at a time, and the pending
\* timeouts of its save button.
MaxTests == 2
MaxTimers == 1

\* What the user can have in the input.
DialogKeys == { <<"">>, <<"AIza", "123">>, <<"AIza", "456">>, <<"AIza", "123", " ">> }

\* useState('') of the provider (line 88), nothing stored yet, the dialog closed
\* (SettingsModal.tsx 387) and its useState of lines 19-21.  testedKey is the
\* argument of the validateApiKey call whose result validationStatus holds, tests
\* the arguments of the calls that have not returned, timers the pending timeouts
\* of handleSave.
DlgInit ==
    [ pc |-> "mount", stored |-> Null, apiKey |-> <<"">>, isOpen |-> FALSE,
      localApiKey |-> <<"">>, validationStatus |-> "idle", testedKey |-> Null,
      tests |-> <<>>, showSuccess |-> FALSE, timers |-> 0 ]

\* The effects of lines 23-27 and 29-32, run after a handler has changed the state
\* from old to new: the first when apiKey or isOpen changed, the second when
\* localApiKey changed.
Effects(old, new) ==
    IF new.apiKey # old.apiKey \/ new.isOpen # old.isOpen
    THEN [new EXCEPT !.localApiKey = new.apiKey, !.validationStatus = "idle", !.testedKey = Null]
    ELSE IF new.localApiKey # old.localApiKey
    THEN [new EXCEPT !.validationStatus = "idle", !.testedKey = Null]
    ELSE new

\* The provider's effect of ApiKeyContext.tsx 90-95 when the page has loaded.
DlgMount ==
    /\ dlg.pc = "mount"
    /\ dlg' = Effects(dlg, [dlg EXCEPT !.pc = "ready",
                                       !.apiKey = IF Truthy(dlg.stored) THEN dlg.stored ELSE @])
    /\ UNCHANGED <<authVars, rt, gen, prov>>

\* The settings button, SettingsModal.tsx 435.
DlgOpen ==
    /\ dlg.pc = "ready"
    /\ ~dlg.isOpen
    /\ dlg' = Effects(dlg, [dlg EXCEPT !.isOpen = TRUE])
    /\ UNCHANGED <<authVars, rt, gen, prov>>

\* onClose from the backdrop or the close button, lines 86 and 97.
DlgClose ==
    /\ dlg.isOpen
    /\ dlg' = Effects(dlg, [dlg EXCEPT !.isOpen = FALSE])
    /\ UNCHANGED <<authVars, rt, gen, prov>>

\* onChange of the input, line 110: the text becomes another one.
DlgChange ==
    /\ dlg.isOpen
    /\ \E key \in DialogKeys \ {dlg.localApiKey} :
         dlg' = Effects(dlg, [dlg EXCEPT !.localApiKey = key])
    /\ UNCHANGED <<authVars, rt, gen, prov>>

\* handleSave, lines 34-41, with setApiKey of ApiKeyContext.tsx 97-105.
DlgSave ==
    /\ dlg.isOpen
    /\ dlg.timers < MaxTimers
    /\ LET trimmedKey == Trim(dlg.localApiKey)
       IN  dlg' = Effects(dlg, [dlg EXCEPT !.apiKey = trimmedKey,
                                           !.stored = IF Truthy(trimmedKey) THEN trimmedKey ELSE Null,
                                           !.showSuccess = TRUE,
                                           !.timers = @ + 1])
    /\ UNCHANGED <<authVars, rt, gen, prov>>

\* The timeout of lines 37-40 fires.
DlgSaveTimeout ==
    /\ dlg.timers > 0
    /\ dlg' = Effects(dlg, [dlg EXCEPT !.showSuccess = FALSE, !.isOpen = FALSE, !.timers = @ - 1])
    /\ UNCHANGED <<authVars, rt, gen, prov>>

\* handleTestKey, lines 43-49, up to the await; the button is disabled while the
\* status is 'testing' (line 128).
DlgTestKey ==
    /\ dlg.isOpen
    /\ dlg.validationStatus # "testing"
    /\ IF ~Truthy(dlg.localApiKey)
       THEN dlg' = [dlg EXCEPT !.validationStatus = "invalid", !.testedKey = dlg.localApiKey]
       ELSE /\ Len(dlg.tests) < MaxTests
            /\ dlg' = [dlg EXCEPT !.validationStatus = "testing", !.testedKey = Null,
                                  !.tests = Append(@, dlg.localApiKey)]
    /\ UNCHANGED <<authVars, rt, gen, prov>>

\* handleTestKey, lines 49-50: a validateApiKey call returns.
DlgTestDone ==
    /\ dlg.pc = "ready"
    /\ \E i \in 1 .. Len(dlg.tests) : \E outcome \in WithRetryOutcomes :
         LET isValid == ValidateResult(outcome)
         IN  dlg' = [dlg EXCEPT !.validationStatus = IF isValid THEN "valid" ELSE "invalid",
                                !.testedKey = dlg.tests[i],
                                !.tests = SubSeq(@, 1, i - 1) \o SubSeq(@, i + 1, Len(@))]
    /\ UNCHANGED <<authVars, rt, gen, prov>>

\* The page is loaded again: the provider is mounted anew and the dialog's
\* components start over, their calls in flight and timeouts gone; the stored key stays.
ProvRemount ==
    /\ prov.pc = "done"
    /\ prov' = ProvInit
    /\ dlg' = [DlgInit EXCEPT !.stored = dlg.stored]
    /\ UNCHANGED <<authVars, rt, gen>>

SettingsNext ==
    \/ ProvInitialize
    \/ ProvFetched
    \/ ProvRemount
    \/ DlgMount
    \/ DlgOpen
    \/ DlgClose
    \/ DlgChange
    \/ DlgSave
    \/ DlgSaveTimeout
    \/ DlgTestKey
    \/ DlgTestDone

----------------------------------------------------------------------------
Init == AuthInit /\ rt = RtIdle /\ gen = GenIdle /\ prov = ProvInit /\ dlg = DlgInit

\* The session guard.
Spec == Init /\ [][Next]_vars

\* The profile read of c's periodic verification is sent and will return the row.
TimerReadSucceeds(c) == VerifyRead(c, "timer") /\ thr'[c]["timer"].reply = "row"

\* What is assumed of the environment, for each client: the interval of
\* SettingsModal.tsx 397-399 fires while it is set, an awaited request of the
\* periodic verification is answered, its profile read is answered with the row
\* again and again, and signOut() completes with its notification.
TimerFairness ==
    \A c \in Clients :
        /\ WF_vars(TimerTick(c))
        /\ WF_vars(VerifyRead(c, "timer"))
        /\ SF_vars(TimerReadSucceeds(c))
        /\ WF_vars(VerifySelect(c, "timer"))
        /\ WF_vars(LogoutSignOut(c, "timer"))

\* The session guard with a periodic verification that makes progress.
SpecFair == Init /\ [][Next]_vars /\ TimerFairness

\* The retry wrapper.
SpecRetry == Init /\ [][RetryNext]_vars

\* The Generative Client.
SpecClient == Init /\ [][ClientNext]_vars

\* The API key provider and the settings dialog.
SpecSettings == Init /\ [][SettingsNext]_vars

----------------------------------------------------------------------------
(* Properties of the session guard.  A step of a handler is told by the    *)
(* positions of its strand before and after it.                            *)

MainStep(c, p, q) == thr[c]["main"].pc = p /\ thr'[c]["main"].pc = q
StrandStep(c, k, p, q) == thr[c][k].pc = p /\ thr'[c][k].pc = q
VerifyStrands == {"timer", "refresh"}

\* The handler on c's main strand takes its step from position p (the page is not
\* reloaded, which would put the strand back at the start of checkInitialSession).
MainMoves(c, p) ==
    /\ thr[c]["main"].pc = p
    /\ thr'[c]["main"] # thr[c]["main"]
    /\ thr'[c]["main"].pc # "in_getSession"

\* A verifySession on c's strand k takes its step from position p.
VerifyMoves(c, k, p) ==
    /\ thr[c][k].pc = p
    /\ thr'[c][k] # thr[c][k]

Authenticated(c) == user[c] # Null /\ session[c] # Null
Unauthenticated(c) == user[c] = Null /\ session[c] = Null

\* The step leaves the other clients as they are.
OthersUntouched(a) ==
    \A b \in Clients \ {a} :
        /\ user'[b] = user[b]
        /\ session'[b] = session[b]
        /\ localSessionId'[b] = localSessionId[b]
        /\ authSess'[b] = authSess[b]

\* C1 as stated: when b's login completes while a, whose login completed before,
\* is Authenticated, active_session_id is b's token and not a's; and a
\* verifySession on a that compares while active_session_id is the token of the
\* Authenticated b and not the pointer a read goes on to the forced logout.
C1_AsStated ==
    [][ /\ \A a, b \in Clients :
             (a # b /\ MainStep(b, "li_commit", "idle") /\ Authenticated(a) /\ localSessionId[a] # Null)
                 => (active_session_id' = localSessionId'[b] /\ active_session_id' # localSessionId[a])
        /\ \A a, b \in Clients, k \in VerifyStrands :
             (a # b /\ VerifyMoves(a, k, "v_select")
                    /\ Authenticated(b) /\ active_session_id = localSessionId[b]
                    /\ active_session_id # thr[a][k].lsid)
                 => thr'[a][k].pc = "lo_signOut"
      ]_vars

\* C1, amended: the remote write of b's login sets active_session_id to b's token, a
\* non-null value that is no other client's pointer; from then on only the write of
\* another login, or the remote clear of a logout that read that very token as its
\* pointer, changes the field; a verifySession on a whose profile read returns the
\* row with a value other than the pointer a read goes on to the forced logout; and
\* the sign-out of that logout leaves a Unauthenticated with its pointer removed and
\* leaves the other clients' user, session, pointer and auth session, and
\* active_session_id, as they are.
C1_Takeover ==
    [][ /\ \A b \in Clients :
             MainStep(b, "li_update", "li_commit")
                 => /\ active_session_id' = thr[b]["main"].lsid
                    /\ active_session_id' # Null
                    /\ \A a \in Clients \ {b} : active_session_id' # localSessionId[a]
        /\ active_session_id' # active_session_id
             => \E c \in Clients :
                  \/ MainStep(c, "li_update", "li_commit")
                  \/ /\ MainStep(c, "lo_update", "lo_signOut")
                     /\ thr[c]["main"].lsid = active_session_id
                     /\ active_session_id' = Null
        /\ \A a \in Clients, k \in VerifyStrands :
             /\ (VerifyMoves(a, k, "v_select")
                   /\ thr[a][k].reply = "row" /\ active_session_id # thr[a][k].lsid)
                  => thr'[a][k].pc = "lo_signOut"
             /\ (StrandStep(a, k, "lo_signOut", "idle") /\ thr[a][k].op = "verify")
                  => /\ Unauthenticated(a)'
                     /\ localSessionId'[a] = Null
                     /\ OthersUntouched(a)
                     /\ active_session_id' = active_session_id
      ]_vars

\* The takeover at work: a is Authenticated with a pointer that is no longer
\* active_session_id, which is the pointer of the Authenticated b, and a
\* verification on a has gone on to the forced logout, its sign-out to come.
C1_Witness ==
    \E a, b \in Clients, k \in VerifyStrands :
        /\ a # b
        /\ At(a, k, "lo_signOut")
        /\ Authenticated(a) /\ localSessionId[a] # Null
        /\ Authenticated(b) /\ localSessionId[b] # Null
        /\ active_session_id = localSessionId[b]
        /\ active_session_id # localSessionId[a]

\* b's login has written its token and the field still holds it: b is about to
\* store it as its pointer, or has stored it.
HoldsActiveToken(b) ==
    /\ active_session_id # Null
    /\ \/ At(b, "main", "li_commit") /\ thr[b]["main"].lsid = active_session_id
       \/ localSessionId[b] = active_session_id

\* C2: while active_session_id is the token another client b's login wrote, no step
\* of a graceful logout on a (getUser, the pointer read, the conditional update,
\* the sign-out) changes the field, whenever the steps of the two operations fall.
C2_StaleLogoutKeepsToken ==
    [][ \A a \in Clients :
          (/\ thr[a]["main"].op = "logout"
           /\ thr'[a]["main"] # thr[a]["main"]
           /\ \E b \in Clients \ {a} : HoldsActiveToken(b))
              => active_session_id' = active_session_id
      ]_vars

\* a's graceful logout is about to send its conditional update with the pointer it
\* read, and the field already holds the token b's login wrote.
C2_Witness ==
    \E a, b \in Clients :
        /\ a # b
        /\ At(a, "main", "lo_update")
        /\ thr[a]["main"].lsid # Null
        /\ HoldsActiveToken(b)

C4_InitWithoutPointer ==
    [][ \A c \in Clients :
          /\ (MainMoves(c, "in_read") /\ thr[c]["main"].cu /\ localSessionId[c] = Null)
               => /\ thr'[c]["main"].pc = "lo_signOut"
                  /\ thr'[c]["main"].op = "init"
                  /\ active_session_id' = active_session_id
                  /\ Unauthenticated(c)'
          /\ (MainStep(c, "lo_signOut", "idle") /\ thr[c]["main"].op = "init")
               => /\ ~authSess'[c]
                  /\ Unauthenticated(c) /\ Unauthenticated(c)'
                  /\ localSessionId'[c] = Null
                  /\ ~loading'[c]
                  /\ active_session_id' = active_session_id
      ]_vars

\* A startup check that found a session and no pointer, its sign-out to come.
C4_Witness ==
    \E c \in Clients :
        /\ At(c, "main", "lo_signOut")
        /\ thr[c]["main"].op = "init"
        /\ authSess[c]
        /\ localSessionId[c] = Null
        /\ loading[c]

\* C7: a login whose profile read fails or finds the account inactive goes on to
\* the sign-out of line 156 without minting or writing anything, and so does one
\* whose token write fails; on the way there user, session, the pointer and
\* active_session_id are not changed; the sign-out ends the auth session and leaves
\* user and session null and no pointer; and a login that has passed the sign-in
\* returns to its caller only from the commit of lines 149-153 or from that sign-out.
C7_FailedLoginSignsOut ==
    [][ \A c \in Clients :
          /\ (MainMoves(c, "li_profile") /\ thr[c]["main"].reply \in {"lost", "inactive"})
               => thr'[c]["main"].pc = "li_signOut"
          /\ (MainMoves(c, "li_profile") \/ MainMoves(c, "li_update"))
               => thr'[c]["main"].pc \in {"li_update", "li_commit", "li_signOut"}
          /\ (MainStep(c, "li_profile", "li_signOut") \/ MainStep(c, "li_update", "li_signOut"))
               => /\ user'[c] = user[c] /\ session'[c] = session[c]
                  /\ localSessionId'[c] = localSessionId[c]
                  /\ active_session_id' = active_session_id
                  /\ minted' = minted
          /\ thr[c]["main"].pc = "li_signOut" => Unauthenticated(c)
          /\ MainMoves(c, "li_signOut")
               => /\ thr'[c]["main"].pc = "idle"
                  /\ ~authSess'[c]
                  /\ Unauthenticated(c)'
                  /\ localSessionId'[c] = Null
                  /\ active_session_id' = active_session_id
          /\ (thr[c]["main"].op = "login" /\ thr'[c]["main"].pc = "idle")
               => thr[c]["main"].pc \in {"li_commit", "li_signOut"}
      ]_vars

\* A login that passed the sign-in and then failed, its sign-out to come.
C7_Witness ==
    \E c \in Clients :
        /\ At(c, "main", "li_signOut")
        /\ authSess[c]
        /\ Unauthenticated(c)

\* The tokens in use: the remote field, the pointers, and what the handlers hold.
TokensInUse ==
    ({active_session_id} \cup {localSessionId[c] : c \in Clients}
        \cup {thr[c][k].lsid : c \in Clients, k \in Strands}) \ {Null}

\* C8: a login that passes the activation test mints a token not in use anywhere;
\* its remote write sets active_session_id to that token while the pointer and the
\* in-memory state are still as before; its commit then stores that same token as the
\* pointer and sets user and session, in one step of the handler that waits for no
\* notification, so the login returns with the client Authenticated and its pointer
\* equal to the token it wrote.
C8_LoginWriteOrder ==
    [][ \A c \in Clients :
          /\ MainStep(c, "li_profile", "li_update")
               => /\ thr'[c]["main"].lsid # Null
                  /\ thr'[c]["main"].lsid \notin TokensInUse
                  /\ active_session_id' = active_session_id
                  /\ localSessionId'[c] = localSessionId[c]
          /\ MainStep(c, "li_update", "li_commit")
               => /\ active_session_id' = thr[c]["main"].lsid
                  /\ thr'[c]["main"].lsid = thr[c]["main"].lsid
                  /\ localSessionId'[c] = localSessionId[c]
                  /\ localSessionId'[c] # active_session_id'
                  /\ Unauthenticated(c) /\ Unauthenticated(c)'
          /\ MainMoves(c, "li_commit")
               => /\ thr'[c]["main"].pc = "idle"
                  /\ localSessionId'[c] = thr[c]["main"].lsid
                  /\ localSessionId'[c] # Null
                  /\ Authenticated(c)'
                  /\ active_session_id' = active_session_id
          /\ (~Authenticated(c) /\ Authenticated(c)')
               => (MainStep(c, "li_commit", "idle") \/ MainStep(c, "in_adopt", "idle"))
      ]_vars

\* A login between its remote write and its commit: the field holds the token, the
\* pointer and the in-memory state do not yet.
C8_Witness ==
    \E c \in Clients :
        /\ At(c, "main", "li_commit")
        /\ active_session_id = thr[c]["main"].lsid
        /\ localSessionId[c] # active_session_id
        /\ Unauthenticated(c)

\* C9 as stated: a verifySession that found a user and a pointer goes on to the
\* forced logout exactly when active_session_id, at the time of its profile read,
\* differs from that pointer.
C9_AsStated ==
    [][ \A c \in Clients, k \in VerifyStrands :
          VerifyMoves(c, k, "v_select")
              => (thr'[c][k].pc = "lo_signOut" <=> active_session_id # thr[c][k].lsid)
      ]_vars

\* C9, amended: a verifySession starts its checks only when getUser() returned a user;
\* having found a user it goes on to the forced logout when the pointer is absent,
\* and with a pointer exactly when its profile read returns the row and the row's
\* active_session_id differs from that pointer; a forced logout of a verification
\* comes about in no other way; and no step of a verification, its forced logout
\* included, changes active_session_id.
C9_VerifyForcesLogout ==
    [][ \A c \in Clients, k \in VerifyStrands :
          /\ VerifyMoves(c, k, "idle")
               => authSess[c] /\ thr'[c][k].pc = "v_read"
          /\ VerifyMoves(c, k, "v_read")
               => IF localSessionId[c] = Null
                  THEN thr'[c][k].pc = "lo_signOut"
                  ELSE thr'[c][k].pc = "v_select" /\ thr'[c][k].lsid = localSessionId[c]
          /\ VerifyMoves(c, k, "v_select")
               => IF thr[c][k].reply = "row" /\ active_session_id # thr[c][k].lsid
                  THEN thr'[c][k].pc = "lo_signOut"
                  ELSE thr'[c][k].pc = "idle"
          /\ (thr[c][k].pc # "lo_signOut" /\ thr'[c][k].pc = "lo_signOut")
               => thr[c][k].pc \in {"v_read", "v_select"}
          /\ thr'[c][k] # thr[c][k] => active_session_id' = active_session_id
      ]_vars

\* A verification that found a user and no pointer, its forced sign-out to come.
C9_Witness ==
    \E c \in Clients, k \in VerifyStrands :
        /\ At(c, k, "lo_signOut")
        /\ thr[c][k].op = "verify"
        /\ authSess[c]
        /\ localSessionId[c] = Null

\* C10: with a session and a pointer, checkInitialSession goes on to adopt exactly
\* when its profile read returns the row, the account is active and
\* active_session_id equals the pointer, and otherwise goes on to the forced logout;
\* the adoption sets user and session; with no session the check ends at once,
\* Unauthenticated, with the auth session and the pointer as they were; and every
\* way the check ends leaves the client with loading false, a forced one also
\* Unauthenticated and signed out.
C10_InitialSession ==
    [][ \A c \in Clients :
          /\ MainMoves(c, "in_read")
               => IF ~thr[c]["main"].cu
                  THEN /\ thr'[c]["main"].pc = "idle"
                       /\ Unauthenticated(c)'
                       /\ authSess'[c] = authSess[c]
                       /\ localSessionId'[c] = localSessionId[c]
                  ELSE IF localSessionId[c] = Null
                  THEN thr'[c]["main"].pc = "lo_signOut"
                  ELSE thr'[c]["main"].pc = "in_select" /\ thr'[c]["main"].lsid = localSessionId[c]
          /\ MainMoves(c, "in_select")
               => IF thr[c]["main"].reply = "active" /\ active_session_id = thr[c]["main"].lsid
                  THEN thr'[c]["main"].pc = "in_adopt"
                  ELSE thr'[c]["main"].pc = "lo_signOut" /\ thr'[c]["main"].op = "init"
          /\ MainMoves(c, "in_adopt")
               => thr'[c]["main"].pc = "idle" /\ Authenticated(c)'
          /\ (thr[c]["main"].op = "init" /\ MainMoves(c, "lo_signOut"))
               => Unauthenticated(c)' /\ ~authSess'[c] /\ thr'[c]["main"].pc = "idle"
          /\ (thr[c]["main"].op = "init" /\ MainMoves(c, thr[c]["main"].pc)
                /\ thr'[c]["main"].pc = "idle")
               => ~loading'[c]
          /\ (thr[c]["main"].op = "init" /\ thr[c]["main"].pc # "in_adopt")
               => (Authenticated(c)' <=> Authenticated(c))
      ]_vars

\* A startup check that found a session, a pointer, the account active and the
\* field equal to the pointer: the adoption is to come.
C10_Witness ==
    \E c \in Clients :
        /\ At(c, "main", "in_adopt")
        /\ authSess[c]
        /\ localSessionId[c] # Null
        /\ active_session_id = localSessionId[c]
        /\ loading[c]

\* The handler on c's strand k takes its step from position p (not a page reload).
StrandMoves(c, k, p) ==
    /\ thr[c][k].pc = p
    /\ thr'[c][k] # thr[c][k]
    /\ ~(k = "main" /\ thr'[c][k].pc = "in_getSession")

\* The positions of a logout in progress.
LogoutPcs == {"lo_getUser", "lo_read", "lo_update", "lo_signOut"}

\* C11: a logout, forced or not, is left only through its sign-out step, and that
\* step ends the auth session, removes the pointer and leaves user and session
\* null; only logout(false) ever stands before the remote update, and the sign-out
\* step of a forced logout (of a verification or of the startup check) leaves
\* active_session_id as it is.
C11_LogoutSignsOut ==
    [][ \A c \in Clients, k \in Strands :
          /\ StrandMoves(c, k, "lo_signOut")
               => /\ thr'[c][k].pc = "idle"
                  /\ ~authSess'[c]
                  /\ Unauthenticated(c)'
                  /\ localSessionId'[c] = Null
          /\ (thr[c][k].pc \in LogoutPcs /\ thr'[c][k].pc \notin LogoutPcs
                /\ ~(k = "main" /\ thr'[c][k].pc = "in_getSession"))
               => thr[c][k].pc = "lo_signOut"
          /\ thr[c][k].pc \in {"lo_getUser", "lo_read", "lo_update"}
               => thr[c][k].op = "logout" /\ k = "main"
          /\ (StrandMoves(c, k, "lo_signOut") /\ thr[c][k].op # "logout")
               => active_session_id' = active_session_id
      ]_vars

\* An Authenticated client with its pointer whose logout(false) has come to the sign-out.
C11_Witness ==
    \E c \in Clients :
        /\ At(c, "main", "lo_signOut")
        /\ thr[c]["main"].op = "logout"
        /\ authSess[c]
        /\ Authenticated(c)
        /\ localSessionId[c] # Null

\* The step leaves c's in-memory state and pointer as they are.
MemoryUntouched(c) ==
    /\ user'[c] = user[c]
    /\ session'[c] = session[c]
    /\ localSessionId'[c] = localSessionId[c]

\* C12: the step in which a sign-in is accepted, and with it the SIGNED_IN
\* notification, leaves user, session and the pointer as they are; a token-refresh
\* notification starts a verifySession on the client it comes to and itself changes
\* no client's user, session or pointer; a step that ends a client's auth session,
\* and with it the SIGNED_OUT notification, leaves user and session null and the
\* pointer removed; and a step that changes a client's user, session or pointer is a
\* sign-out, the commit of a login, the adoption of the startup check or a page
\* reload, so a notification with any other tag changes none of them.
C12_NotificationsPerTag ==
    [][ /\ \A c \in Clients :
             /\ MainStep(c, "idle", "li_profile") => MemoryUntouched(c)
             /\ (authSess[c] /\ ~authSess'[c])
                  => Unauthenticated(c)' /\ localSessionId'[c] = Null
             /\ ~MemoryUntouched(c)
                  => \/ \E k \in Strands : StrandStep(c, k, "lo_signOut", "idle")
                     \/ MainStep(c, "li_signOut", "idle")
                     \/ MainStep(c, "li_commit", "idle")
                     \/ MainStep(c, "in_adopt", "idle")
                     \/ thr'[c]["main"].pc = "in_getSession"
        /\ refreshes' # refreshes
             => /\ \E c \in Clients :
                      /\ authSess[c]
                      /\ StrandStep(c, "refresh", "idle", "v_read")
                      /\ thr'[c]["refresh"].op = "verify"
                /\ \A c \in Clients : MemoryUntouched(c)
      ]_vars

\* A client whose sign-in has just been accepted, still Unauthenticated and without
\* pointer, while a token-refresh notification has started a verification on it.
C12_Witness ==
    \E c \in Clients :
        /\ At(c, "main", "li_profile")
        /\ authSess[c]
        /\ Unauthenticated(c)
        /\ localSessionId[c] = Null
        /\ At(c, "refresh", "v_read")

\* b is Authenticated and holds the token in active_session_id.
HoldsSession(b) ==
    /\ Authenticated(b)
    /\ localSessionId[b] # Null
    /\ active_session_id = localSessionId[b]

\* C13 as stated: when a verification on a finishes with no other verification of a
\* in flight, while another client b holds the session (so that a's token, if a has
\* one, has been replaced), a is left Unauthenticated and without pointer, and
\* active_session_id is still b's token.
C13_AsStated ==
    [][ \A a \in Clients, k \in VerifyStrands :
          (/\ VerifyMoves(a, k, thr[a][k].pc)
           /\ thr'[a][k].pc = "idle"
           /\ \A j \in VerifyStrands \ {k} : At(a, j, "idle")
           /\ \E b \in Clients \ {a} : HoldsSession(b))
              => /\ Unauthenticated(a)'
                 /\ localSessionId'[a] = Null
                 /\ active_session_id' = active_session_id
      ]_vars

\* C13, amended: wherever the other verification of the same client stands, a
\* verification whose profile read returns the row with a value other than the
\* pointer it read, or which finds the pointer already removed, goes on to the
\* forced logout; the sign-out of that logout leaves the client Unauthenticated,
\* without pointer and without auth session, and leaves active_session_id and the
\* other clients as they are; a second sign-out that finds the client already so
\* changes nothing; and no step of a verification sets user, session or the
\* pointer.  A verification whose read returns no data goes back to rest.
C13_ConcurrentVerifications ==
    [][ \A a \in Clients, k \in VerifyStrands :
          /\ (VerifyMoves(a, k, "v_select") /\ thr[a][k].reply = "row"
                /\ active_session_id # thr[a][k].lsid)
               => thr'[a][k].pc = "lo_signOut"
          /\ (VerifyMoves(a, k, "v_select") /\ thr[a][k].reply = "lost")
               => thr'[a][k].pc = "idle"
          /\ (VerifyMoves(a, k, "v_read") /\ localSessionId[a] = Null)
               => thr'[a][k].pc = "lo_signOut"
          /\ VerifyMoves(a, k, "lo_signOut")
               => /\ thr'[a][k].pc = "idle"
                  /\ Unauthenticated(a)' /\ localSessionId'[a] = Null /\ ~authSess'[a]
                  /\ active_session_id' = active_session_id
                  /\ OthersUntouched(a)
                  /\ \A j \in Strands \ {k} : thr'[a][j] = thr[a][j]
          /\ (VerifyMoves(a, k, "lo_signOut") /\ Unauthenticated(a)
                /\ localSessionId[a] = Null /\ ~authSess[a])
               => MemoryUntouched(a) /\ authSess' = authSess
          /\ (VerifyMoves(a, k, thr[a][k].pc) /\ thr[a][k].pc # "lo_signOut")
               => MemoryUntouched(a) /\ authSess' = authSess
                    /\ active_session_id' = active_session_id
      ]_vars

\* Both verifications of a have found a's token replaced by the token of the
\* Authenticated b, and both sign-outs are to come.
C13_Witness ==
    \E a, b \in Clients :
        /\ a # b
        /\ At(a, "timer", "lo_signOut")
        /\ At(a, "refresh", "lo_signOut")
        /\ Authenticated(a) /\ localSessionId[a] # Null
        /\ HoldsSession(b)
        /\ active_session_id # localSessionId[a]

\* a is Authenticated while the login of another client holds the session.
Replaced(a) ==
    /\ Authenticated(a)
    /\ \E b \in Clients \ {a} : HoldsSession(b)

\* C14 as stated: the periodic verification starts only on a client that is
\* Authenticated, and, the interval firing and the reads succeeding as TimerFairness
\* says, a client whose token another client's login has replaced eventually
\* becomes Unauthenticated.
C14_AsStated ==
    /\ [][ \A c \in Clients : StrandStep(c, "timer", "idle", "v_read") => user[c] # Null ]_vars
    /\ \A a \in Clients : Replaced(a) ~> Unauthenticated(a)

\* C15: in every reachable state a client's user is null exactly when its session
\* is null; a client goes from Unauthenticated to Authenticated only in the last
\* step of a successful login or of the adoption at startup, and from Authenticated
\* to Unauthenticated only in the sign-out step of a logout or when the page is
\* reloaded; and the sign-out step of every forced logout leaves the client
\* Unauthenticated.
C15_TwoStates ==
    /\ [](\A c \in Clients : Authenticated(c) \/ Unauthenticated(c))
    /\ [][ \A c \in Clients :
             /\ (Unauthenticated(c) /\ Authenticated(c)')
                  => MainStep(c, "li_commit", "idle") \/ MainStep(c, "in_adopt", "idle")
             /\ (Authenticated(c) /\ Unauthenticated(c)')
                  => \/ \E k \in Strands : StrandStep(c, k, "lo_signOut", "idle")
                     \/ thr'[c]["main"].pc = "in_getSession"
             /\ \A k \in Strands :
                  (StrandMoves(c, k, "lo_signOut") /\ thr[c][k].op # "logout")
                      => Unauthenticated(c)'
         ]_vars

\* An Authenticated client whose verification is about to sign it out, beside a
\* client that is Unauthenticated.
C15_Witness ==
    \E c, d \in Clients :
        /\ Authenticated(c)
        /\ \E k \in VerifyStrands : At(c, k, "lo_signOut") /\ thr[c][k].op = "verify"
        /\ Unauthenticated(d)

\* C23 as stated: a client that is Authenticated with its pointer stays so, the
\* pointer unchanged, in every step but these: the page is reloaded; the sign-out
\* of a logout invoked on the client; the sign-out of a verification's forced
\* logout, the Account's active_session_id then being other than the client's
\* pointer (replaced or cleared remotely).  So no sign-out left over from an
\* earlier operation clears the session of a login that has succeeded.
C23_AsStated ==
    [][ \A c \in Clients :
          (/\ Authenticated(c)
           /\ localSessionId[c] # Null
           /\ ~(Authenticated(c)' /\ localSessionId'[c] = localSessionId[c]))
              => \/ thr'[c]["main"].pc = "in_getSession"
                 \/ \E k \in Strands :
                      /\ StrandStep(c, k, "lo_signOut", "idle")
                      /\ \/ thr[c][k].op = "logout"
                         \/ thr[c][k].op = "verify" /\ active_session_id # localSessionId[c]
      ]_vars

\* The clients whose pointer is the token in active_session_id.
PointerHolders == {c \in Clients : localSessionId[c] # Null /\ localSessionId[c] = active_session_id}

C27_AsStated ==
    \A c \in Clients : Authenticated(c) => localSessionId[c] # Null

\* login() on c takes a step of its failure path: the profile read has answered with an
\* error or an inactive account (lines 137-138), or the catch block runs (lines 155-158).
\* (Invalid credentials throw at line 124 before anything is touched: that step changes
\* no variable.)
LoginFailureStep(c) ==
    /\ thr[c]["main"].op = "login"
    /\ \/ MainMoves(c, "li_profile") /\ thr[c]["main"].reply # "active"
       \/ MainMoves(c, "li_signOut")

\* C28: a login() that fails on a profile read error or an inactive account goes to its
\* catch block without writing active_session_id, and no step of the failure path changes
\* active_session_id or takes the session from another client that holds it, so a
\* later verifySession() there finds its pointer still equal to the remote field.
C28_FailedLoginFrame ==
    [][ \A c \in Clients :
          LoginFailureStep(c) =>
              /\ active_session_id' = active_session_id
              /\ thr'[c]["main"].pc \in {"li_signOut", "idle"}
              /\ thr'[c]["main"].pc = "idle" => thr[c]["main"].pc = "li_signOut"
              /\ \A d \in Clients \ {c} : HoldsSession(d) => HoldsSession(d)'
      ]_vars

\* A login on one client has failed and is in its catch block while another client
\* holds the session.
C28_Witness ==
    \E c \in Clients : \E d \in Clients \ {c} :
        /\ thr[c]["main"].op = "login"
        /\ At(c, "main", "li_signOut")
        /\ HoldsSession(d)

\* verifySession() on strand k of c takes a step (lines 43-55).
VerifyStep(c, k) ==
    /\ thr[c][k].op = "verify"
    /\ thr[c][k].pc \in {"v_read", "v_select"}
    /\ thr'[c][k] # thr[c][k]

\* C29: no step of verifySession() itself changes the in-memory state, the Local
\* Session Pointer, the auth session or the remote field, and when its profile read
\* returns no data, or returns the token that it read as the pointer, it returns
\* without calling logout.  The row it reads holds active_session_id only.
C29_VerifyFrame ==
    [][ \A c \in Clients : \A k \in VerifyStrands :
          VerifyStep(c, k) =>
              /\ UNCHANGED <<active_session_id, authSess, localSessionId, user, session>>
              /\ (/\ thr[c][k].pc = "v_select"
                  /\ \/ thr[c][k].reply = "lost"
                     \/ thr[c][k].lsid = active_session_id)
                     => thr'[c][k] = Idle
      ]_vars

\* A verification of an Authenticated client is about to compare, its pointer being
\* the remote token, and another one has a profile read that returned nothing.
C29_Witness ==
    \E c \in Clients : \E k \in VerifyStrands :
        /\ Authenticated(c)
        /\ At(c, k, "v_select")
        /\ thr[c][k].reply = "row"
        /\ thr[c][k].lsid = active_session_id
        /\ localSessionId[c] = active_session_id
        /\ \E d \in Clients : \E j \in VerifyStrands :
              /\ <<d, j>> # <<c, k>>
              /\ At(d, j, "v_select")
              /\ thr[d][j].reply = "lost"

----------------------------------------------------------------------------
(* Properties of the retry wrapper.                                        *)

Last(seq) == seq[Len(seq)]

\* The operation failed at every invocation of the call, each time with an error
\* that P holds of.
AlwaysFailedWith(P(_)) ==
    /\ rt.errs # <<>>
    /\ rt.calls = Len(rt.errs)
    /\ \A i \in 1 .. Len(rt.errs) : P(rt.errs[i])

\* An Error whose message contains "status: 429" or "quota exceeded", whatever the case.
MentionsRateLimit(e) ==
    /\ e.isError
    /\ \/ Includes(ToLowerCase(e.msg), <<"status: 429">>)
       \/ Includes(ToLowerCase(e.msg), <<"quota exceeded">>)

\* An Error whose message contains "got status: 429" as written, or "quota exceeded"
\* whatever the case.
MatchesRateLimit(e) ==
    /\ e.isError
    /\ \/ \E i \in 1 .. Len(e.msg) - 1 : e.msg[i] = "got " /\ e.msg[i + 1] = "status: 429"
       \/ \E i \in 1 .. Len(e.msg) : e.msg[i] \in {"quota exceeded", "Quota Exceeded", "QUOTA EXCEEDED"}

\* C5 as stated, for maxRetries >= 1: when the operation always fails with an error
\* whose message contains "status: 429" or "quota exceeded" (case-insensitive), the
\* call ends only after maxRetries invocations and maxRetries-1 waits, with the fixed
\* quota message.
C5_AsStated ==
    (rt.pc = "thrown" /\ rt.maxRetries >= 1 /\ AlwaysFailedWith(MentionsRateLimit))
        => /\ rt.calls = rt.maxRetries
           /\ Len(rt.waits) = rt.maxRetries - 1
           /\ rt.result = QuotaError

\* C5, amended: when maxRetries >= 1 and the operation always fails with an Error
\* whose message contains "got status: 429" (in that case) or "quota exceeded"
\* (case-insensitive), the call ends only after maxRetries invocations and
\* maxRetries-1 waits, with the fixed quota message in place of the original error.
C5_RetriesThenQuotaError ==
    (rt.pc = "thrown" /\ rt.maxRetries >= 1 /\ AlwaysFailedWith(MatchesRateLimit))
        => /\ rt.calls = rt.maxRetries
           /\ Len(rt.waits) = rt.maxRetries - 1
           /\ rt.result = QuotaError
           /\ rt.result # Last(rt.errs)

\* A call with the default maxRetries that ended with the quota message after the
\* operation failed five times with rate-limit errors.
C5_Witness ==
    /\ rt.pc = "thrown"
    /\ rt.maxRetries = DefaultMaxRetries
    /\ AlwaysFailedWith(MatchesRateLimit)
    /\ rt.calls = DefaultMaxRetries
    /\ rt.result = QuotaError

\* C6: once the operation has failed with an error that is not a rate-limit error,
\* the call has failed with that very error: the operation was invoked once per
\* error caught and never again, and no wait was scheduled for this error (the
\* waits are those of the earlier, rate-limit failures), whatever attempts remained.
C6_OtherErrorThrownAtOnce ==
    (rt.errs # <<>> /\ ~MatchesRateLimit(Last(rt.errs)))
        => /\ rt.pc = "thrown"
           /\ rt.result = Last(rt.errs)
           /\ rt.calls = Len(rt.errs)
           /\ Len(rt.waits) = Len(rt.errs) - 1

\* A call that had retried twice after rate-limit failures, had attempts left, and
\* ended with the other error the third invocation threw.
C6_Witness ==
    /\ rt.pc = "thrown"
    /\ Len(rt.errs) = 3
    /\ rt.maxRetries = DefaultMaxRetries
    /\ MatchesRateLimit(rt.errs[1]) /\ MatchesRateLimit(rt.errs[2])
    /\ ~MatchesRateLimit(rt.errs[3])
    /\ rt.result = rt.errs[3]
    /\ Len(rt.waits) = 2

\* The waits of the call in hand: waits[n] is the <<delay, jitter>> handed to
\* setTimeout before the n-th retry.
WaitsWellFormed ==
    /\ \A n \in 1 .. Len(rt.waits) :
          /\ rt.waits[n][1] = rt.initialDelay * (2 ^ (n - 1))
          /\ rt.waits[n][2] \in 0 .. (JitterBound - 1)
    /\ \A n \in 2 .. Len(rt.waits) : rt.waits[n][1] = 2 * rt.waits[n - 1][1]
    /\ rt.calls = 0 => rt.waits = <<>>
    /\ rt.pc \in {"loop", "waiting"} => Len(rt.waits) = rt.calls
    /\ (rt.pc \in {"returned", "thrown"} /\ rt.calls > 0) => Len(rt.waits) = rt.calls - 1

----------------------------------------------------------------------------
(* Properties of the Generative Client.                                    *)

InVideo == gen.op = "generateVideo"
Ended == gen.pc \in {"returned", "thrown"}

\* C17: generateVideo submits once, first of all; after the submission waits of
\* 10 seconds and polls alternate, each poll coming right after a wait; a wait is
\* started, and a poll sent, only when the latest answer says the job is not done,
\* so a job done at submission is never polled; as long as the answers say not
\* done the next poll follows, whatever the number of polls so far; and
\* generateVideo has ended only if the latest answer said done, or the latest
\* submission or poll failed, or the key was missing.
C17_PollWhileNotDone ==
    InVideo =>
        /\ \A i \in 1 .. Len(gen.log) :
              gen.log[i] = IF i = 1 THEN LogEntry("submit", 0)
                           ELSE IF i % 2 = 0 THEN LogEntry("wait", PollInterval)
                           ELSE LogEntry("poll", 0)
        /\ gen.pc = "waiting" <=> (gen.log # <<>> /\ Last(gen.log).ev = "wait")
        /\ gen.pc \in {"submitting", "polling"} => Last(gen.log).ev = IF gen.pc = "polling" THEN "poll" ELSE "submit"
        /\ gen.pc = "submitting" <=> gen.log = <<LogEntry("submit", 0)>> /\ gen.last = NoOutcome
        /\ gen.pc \in {"waiting", "polling"} => ~gen.operation.done /\ gen.last.kind = "returned"
        /\ gen.pc = "fetching" => gen.operation.done
        /\ (gen.pc = "waiting" /\ PollsIn(gen.log) < MaxPolls) => ENABLED VideoWake
        /\ Ended => \/ gen.log = <<>> /\ gen.args.apiKey = ""
                    \/ gen.last.kind = "thrown"
                    \/ gen.last.kind = "returned" /\ gen.operation.done

\* The job was not done at submission nor at the first poll, and the second poll
\* is out.
C17_Witness ==
    /\ InVideo
    /\ gen.pc = "polling"
    /\ PollsIn(gen.log) = 2
    /\ ~gen.operation.done

\* The latest answer of the provider says the job is done.
JobDone == InVideo /\ gen.last.kind = "returned" /\ gen.operation.done

\* C18: on a job that is done, generateVideo throws the job's error message if the
\* job carries an error, the generic unknown-error message taking the place of a
\* message that is absent or empty, and this whether or not a locator is present;
\* with no error and no locator (absent or empty) it throws the empty-result error;
\* the download is started only for a done job with no error and a locator, on
\* the locator with the key appended; and what generateVideo returns is a
\* non-empty URL, returned only after such a download.
C18_ClassifyDoneJob ==
    /\ JobDone =>
          /\ gen.pc \in {"fetching", "returned", "thrown"}
          /\ gen.operation.error # Null =>
                /\ gen.pc = "thrown"
                /\ gen.result = Threw(Thrown(TRUE, IF gen.operation.error[1] \in {Null, <<"">>}
                                                    THEN UnknownError
                                                    ELSE gen.operation.error[1]))
          /\ (gen.operation.error = Null /\ gen.operation.link \in {Null, <<"">>}) =>
                /\ gen.pc = "thrown"
                /\ gen.result = Threw(Thrown(TRUE, EmptyResultError))
          /\ gen.pc \in {"fetching", "returned"} =>
                /\ gen.operation.error = Null
                /\ gen.operation.link \notin {Null, <<"">>}
                /\ Includes(gen.fetched, gen.operation.link)
                /\ Includes(gen.fetched, <<"key=", gen.args.apiKey>>)
    /\ (InVideo /\ gen.fetched # Null) => JobDone
    /\ (InVideo /\ gen.result.kind = "returned") =>
          /\ gen.pc = "returned" /\ JobDone /\ gen.fetched # Null
          /\ gen.result.val \notin {Null, <<"">>}

\* A done job with both an error message and a locator has made generateVideo
\* throw.
C18_Witness ==
    /\ JobDone
    /\ gen.pc = "thrown"
    /\ gen.operation.error = << <<"boom">> >>
    /\ Truthy(gen.operation.link)

\* The number of fragments of msg that are in the set fs.
Occurrences(msg, fs) == Cardinality({i \in 1 .. Len(msg) : msg[i] \in fs})

AspectClauses == {VerticalClause, WidescreenClause}
SoundClauseHeads == {VoiceClause("english")[1], AmbientClause[1], SilentClause[1]}

\* C19: the prompt generateVideo submits for a string prompt is, in this order,
\* the "Animate this image." prefix exactly if imageBase64 is a non-empty string,
\* the user's text, the vertical 9:16 clause if aspectRatio is "9:16" and the 16:9
\* widescreen clause otherwise, the visual-style clause, the resolution clause, and
\* one sound clause: silent if enableSound is false, voiced in the language if
\* enableSound and the voice is not 'none', ambient if enableSound and the voice is
\* 'none'; it holds one aspect-ratio clause and one sound clause.  For a prompt
\* that is not a string it is the serialized prompt, with no prefix and no clause.
C19_FinalPrompt ==
    (InVideo /\ gen.pc = "submitting") =>
        LET a == gen.args
            p == gen.payload.prompt
        IN  IF a.prompt.isString
            THEN /\ p = (IF a.imageBase64 \notin {Null, <<"">>} THEN <<"Animate this image. ">> ELSE <<>>)
                         \o a.prompt.body
                         \o (IF a.aspectRatio = "9:16"
                             THEN <<" The video must be a full-screen vertical video with a 9:16 aspect ratio.">>
                             ELSE <<" The video must be a widescreen video with a 16:9 aspect ratio.">>)
                         \o <<" ", "The visual style should be ", a.visualStyle, ".">>
                         \o <<" ", "The video resolution should be ", a.resolution, ".">>
                         \o <<" ">>
                         \o (IF ~a.enableSound THEN <<"The video should be silent.">>
                             ELSE IF a.characterVoice # "none"
                                  THEN <<"The video should include audio with a character voice in ",
                                         a.characterVoice, ".">>
                                  ELSE <<"The video should include ambient sound.">>)
                 /\ Occurrences(p, AspectClauses) = 1
                 /\ Occurrences(p, SoundClauseHeads) = 1
                 /\ Occurrences(p, {AnimatePrefix}) = IF a.imageBase64 \in {Null, <<"">>} THEN 0 ELSE 1
            ELSE /\ p = <<"{\"", a.prompt.body[1], "\":\"", a.prompt.body[2], "\"}">>
                 /\ Occurrences(p, AspectClauses \cup SoundClauseHeads \cup {AnimatePrefix}) = 0

\* A string prompt with an image, the 9:16 ratio, sound and a voice is being
\* submitted.
C19_Witness ==
    /\ InVideo
    /\ gen.pc = "submitting"
    /\ gen.args.prompt.isString
    /\ gen.args.imageBase64 = <<"AAAA">>
    /\ gen.args.aspectRatio = "9:16"
    /\ gen.args.enableSound
    /\ gen.args.characterVoice = "english"

InValidate == gen.op = "validateApiKey"

\* C20: validateApiKey never throws; it returns true or false, true exactly when
\* withRetry returned, that is when a call of the provider succeeded, and false
\* when withRetry threw, after the retries on rate-limit errors were used up or at
\* once on another error; with an empty key it returns false and the provider is
\* not called.
C20_ValidateNeverThrows ==
    InValidate =>
        /\ gen.pc \in {"listing", "returned"}
        /\ gen.result.kind # "thrown"
        /\ gen.pc = "listing" => gen.args.apiKey # "" /\ gen.result.kind = "none"
        /\ gen.pc = "returned" =>
              /\ gen.result.kind = "returned"
              /\ gen.result.val \in {<<TRUE>>, <<FALSE>>}
              /\ gen.result.val = <<TRUE>> <=> (gen.last.kind = "returned" /\ gen.last.calls >= 1)
              /\ gen.args.apiKey = "" => gen.result.val = <<FALSE>> /\ gen.last.calls = 0
              /\ gen.args.apiKey # "" => gen.last.calls \in 1 .. DefaultMaxRetries
              /\ gen.last.kind = "thrown" => gen.result.val = <<FALSE>>

\* validateApiKey has returned false after five rate-limit errors in a row.
C20_Witness ==
    /\ InValidate
    /\ gen.pc = "returned"
    /\ gen.last.kind = "thrown"
    /\ gen.last.err = QuotaError
    /\ gen.last.calls = DefaultMaxRetries
    /\ gen.result.val = <<FALSE>>

\* C25: every withRetry of generateVideo, the submission's and each poll's, makes
\* between one and maxRetries provider calls whatever the earlier ones made, and
\* throws the quota error only after maxRetries calls of its own; when it throws,
\* by exhaustion or at once on another error, generateVideo has thrown that very
\* error and has started no further wait or poll.
C25_FreshBudgetPerPoll ==
    InVideo =>
        /\ gen.last.kind # "none" => gen.last.calls \in 1 .. DefaultMaxRetries
        /\ (gen.last.kind = "thrown" /\ gen.last.err = QuotaError) => gen.last.calls = DefaultMaxRetries
        /\ gen.last.kind = "thrown" =>
              /\ gen.pc = "thrown"
              /\ gen.result = Threw(gen.last.err)
              /\ Last(gen.log).ev \in {"submit", "poll"}
              /\ gen.last.err # QuotaError => ~MatchesRateLimit(gen.last.err)
        /\ gen.spent <= PollsIn(gen.log) * DefaultMaxRetries

\* The submission and the first poll took five provider calls each, and the second
\* poll has failed after five calls of its own: generateVideo has thrown the quota
\* error.
C25_Witness ==
    /\ InVideo
    /\ PollsIn(gen.log) = 2
    /\ gen.spent = 2 * DefaultMaxRetries
    /\ gen.last.kind = "thrown"
    /\ gen.last.err = QuotaError
    /\ gen.last.calls = DefaultMaxRetries
    /\ gen.pc = "thrown"

InImage == gen.op \in ImageOps

\* The indices of the parts that carry inline data.
InlineAt(ps) == {i \in 1 .. Len(ps) : ps[i].inlineData # Null}

\* C21: when the provider has answered editImage or changeImageAspectRatio, the
\* call has ended after that one withRetry; if some part of the answer carries
\* inline data it has returned the data and MIME type of the first such part, the
\* parts before it carrying none; if no part does, or there is no candidate, it
\* has thrown the "No image was generated" error, with no further provider call.
C21_FirstInlineImage ==
    (InImage /\ gen.last.kind = "returned") =>
        LET ps == IF gen.response.candidates = <<>> THEN <<>> ELSE gen.response.candidates[1].parts
        IN  /\ Ended
            /\ gen.log = <<LogEntry("generateContent", 0)>>
            /\ InlineAt(ps) # {} =>
                  \E i \in InlineAt(ps) :
                      /\ \A j \in 1 .. (i - 1) : ps[j].inlineData = Null
                      /\ gen.pc = "returned"
                      /\ gen.result = Returned(<<[data |-> ps[i].inlineData[1],
                                                  mimeType |-> ps[i].inlineData[2]]>>)
            /\ InlineAt(ps) = {} =>
                  /\ gen.pc = "thrown"
                  /\ gen.result = Threw(Thrown(TRUE, <<"No image was generated by the model.">>))

\* The answer had a text part, then two different images; the first image was
\* returned.
C21_Witness ==
    /\ InImage
    /\ gen.last.kind = "returned"
    /\ gen.response.candidates # <<>>
    /\ LET ps == gen.response.candidates[1].parts
       IN  /\ Len(ps) = 3
           /\ ps[1].inlineData = Null
           /\ ps[2].inlineData = <<"IMG2", "image/jpeg">>
           /\ ps[3].inlineData = <<"IMG1", "image/png">>
    /\ gen.pc = "returned"

----------------------------------------------------------------------------
(* Properties of the API key provider and the settings dialog.             *)

\* The key holds the marker in some lettering.
HasPlaceholderMarker(key) ==
    \E i \in 1 .. Len(key) : key[i] \in {"PLACEHOLDER", "placeholder", "Placeholder"}

\* C22: when initializeApiKey has ended, by whichever path, isInitializing is
\* false; a key found in the environment is stored without asking the backend;
\* after a fetch that was rejected, a response that was not ok or a body that
\* could not be read, the key is unset; the key stored is never empty and never
\* holds the placeholder marker, in any lettering, and comes from the environment
\* or from the backend's answer; and isApiKeySet is true exactly when a key is
\* stored.
C22_KeyProvisioning ==
    /\ prov.pc = "done" => ~prov.isInitializing
    /\ prov.pc # "done" => prov.isInitializing /\ prov.apiKey = <<"">>
    /\ (prov.pc = "done" /\ prov.reply.kind = "none") => prov.apiKey = prov.env /\ prov.apiKey # <<"">>
    /\ prov.reply.kind \in {"rejected", "notOk", "badJson"} => prov.pc = "done" /\ prov.apiKey = <<"">>
    /\ prov.apiKey # <<"">> =>
          /\ prov.apiKey # Null
          /\ ~HasPlaceholderMarker(prov.apiKey)
          /\ prov.apiKey = IF prov.reply.kind = "none" THEN prov.env ELSE prov.reply.apiKey
    /\ IsApiKeySet <=> prov.apiKey # <<"">>
    /\ (prov.pc = "done" /\ prov.reply.kind = "ok" /\ prov.apiKey = <<"">>) =>
          prov.reply.apiKey \in {Null, <<"">>} \/ HasPlaceholderMarker(prov.reply.apiKey)

\* The backend answered with a key that holds the marker in small letters, after
\* the environment gave one in capitals; no key is stored.
C22_Witness ==
    /\ prov.pc = "done"
    /\ prov.env = <<"PLACEHOLDER", "_API_KEY">>
    /\ prov.reply.kind = "ok"
    /\ prov.reply.apiKey = <<"your-", "placeholder", "-key">>
    /\ prov.apiKey = <<"">>
    /\ ~prov.isInitializing


\* C30: whenever the status shown in the dialog is 'valid' or 'invalid', it is the
\* result of testing the key that is in the input now.  Violated: the key is edited
\* while a test is in flight, and the result of that test is shown for the new text.
C30_AsStated ==
    (dlg.isOpen /\ dlg.validationStatus \in {"valid", "invalid"})
        => dlg.testedKey = dlg.localApiKey

=============================================================================
